---- MODULE Spec2Model ----
(***************************************************************************)
(* Home Assistant MCP server (ha-mcp-server/index.js) as a state machine.  *)
(*                                                                         *)
(* The server is a set of request handlers run by a single-threaded        *)
(* runtime: a handler runs without interruption up to its next await (an   *)
(* outbound HTTP request), and handlers of other requests run while it     *)
(* waits.  A slot holds one request in flight: the request, the handler's  *)
(* position, its local variables, the outbound requests it has issued and, *)
(* once it has finished, its response.                                     *)
(*                                                                         *)
(* Texts are sequences of tokens (a template literal is the sequence of    *)
(* its parts); a JavaScript object is a record holding the fields that are *)
(* present.                                                                *)
(***************************************************************************)
EXTENDS Integers, Sequences, FiniteSets, TLC

VARIABLES
  currentLogLevel,   \* index.js:72   let currentLogLevel
  lastIndex,         \* lastIndex of each RegExp object of DEPRECATION_PATTERNS
  inflight,          \* the requests received and not yet answered to the end
  stderr,            \* the log records written by the latest step
  twin,              \* two servers side by side, and their answers to one request
  process,           \* the server process: running, or exited with a status code
  scan,              \* a function of index.js applied to a list of states
  disk               \* the files under /data and /opt the startup script reads and writes

vars == <<currentLogLevel, lastIndex, inflight, stderr, twin, process, scan, disk>>

\* ------------------------------------------------------------------ bounds

MaxInflight == 1     \* requests being handled at a time

\* The readings of the clock (new Date(), Date.now()), as ISO texts
Times == {"T1", "T2"}
NoTime == ""

\* ----------------------------------------------------------------- helpers

Has(o, k) == k \in DOMAIN o

\* `${o.k}` : an absent field prints as "undefined"
Str(o, k) == IF Has(o, k) THEN o[k] ELSE "undefined"

\* o.k is truthy (fields hold strings or objects; "" is the falsy string)
Truthy(o, k) == Has(o, k) /\ o[k] # ""

EmptyObj == [k \in {} |-> ""]

SeqToSet(s) == {s[i] : i \in 1..Len(s)}

\* ----------------------------------------------------------- logging system

LOG_LEVELS ==
  <<"debug", "info", "notice", "warning", "error", "critical", "alert", "emergency">>

\* Array.prototype.indexOf: 0-based position, -1 when absent
getLogLevelIndex(level) ==
  IF \E i \in 1..Len(LOG_LEVELS) : LOG_LEVELS[i] = level
  THEN (CHOOSE i \in 1..Len(LOG_LEVELS) : LOG_LEVELS[i] = level) - 1
  ELSE -1

\* A filter that drops the records of the current level itself
shouldLogAbove(level, cur) == getLogLevelIndex(level) > getLogLevelIndex(cur)

shouldLog(level, cur) == getLogLevelIndex(level) >= getLogLevelIndex(cur)

\* the records sendLog writes to stderr under the current level cur
sendLog(cur, level, logger, action) ==
  IF shouldLog(level, cur)
  THEN <<[level |-> level, logger |-> logger, action |-> action]>>
  ELSE <<>>

\* ------------------------------------------------------- outbound requests

SUPERVISOR_API == "http://supervisor/core/api"
HA_DOCS_BASE == "https://www.home-assistant.io"
SUPERVISOR_TOKEN == "token"

NoBody == [none |-> TRUE]

\* What callHA hands to fetch.  endpoint is the sequence of path segments
\* after SUPERVISOR_API; at is the clock reading a default time range was
\* computed from (NoTime when the endpoint holds none); body is NoBody or an
\* object.
\* `if (body)`: every object, the empty one included, is sent.
callHA(endpoint, at, method, body) ==
  [ base |-> SUPERVISOR_API,
    endpoint |-> endpoint,
    at |-> at,
    method |-> method,
    headers |-> [Authorization |-> <<"Bearer ", SUPERVISOR_TOKEN>>,
                 ContentType |-> "application/json"],
    hasBody |-> body # NoBody,
    body |-> IF body # NoBody THEN body ELSE EmptyObj ]

\* fetchUrl sending the headers of callHA
fetchUrlWithToken(url) ==
  [ base |-> HA_DOCS_BASE,
    endpoint |-> url,
    at |-> NoTime,
    method |-> "GET",
    headers |-> [Authorization |-> <<"Bearer ", SUPERVISOR_TOKEN>>,
                 ContentType |-> "application/json"],
    hasBody |-> FALSE,
    body |-> EmptyObj ]

\* What fetchUrl hands to fetch: a GET without the Authorization header.
fetchUrl(url) ==
  [ base |-> HA_DOCS_BASE,
    endpoint |-> url,
    at |-> NoTime,
    method |-> "GET",
    headers |-> [UserAgent |-> "HomeAssistant-MCP-Server/2.1.0",
                 Accept |-> "text/html,application/xhtml+xml,text/plain"],
    hasBody |-> FALSE,
    body |-> EmptyObj ]

\* The record logged before the fetch, by callHA or by fetchUrl.
requestLog(call) ==
  IF call.base = SUPERVISOR_API
  THEN <<[level |-> "debug", logger |-> "ha-api", action |-> "request"]>>
  ELSE <<[level |-> "debug", logger |-> "docs", action |-> "fetch"]>>

\* The replies of an upstream server: a JSON document, a text document, an
\* error status with a text, or no reply at all (fetch rejects).
\* listed: the entity whose state a list of states holds
HAJson == [version |-> "2024.6.1", state |-> "on", data |-> "d1", listed |-> "light.a"]
HAText == [text |-> "t1"]

\* The state object of an unavailable entity with a battery level of 19,
\* which detectAnomaly reports, and a history without a series
HAJsonUnavailable ==
  [version |-> "2024.6.1", state |-> "unavailable", data |-> "d2",
   anomaly |-> "Low battery (19%)"]
HAJsonNoSeries == [version |-> "2024.6.1", state |-> "on", series |-> "none"]

\* GET /states/{entity_id} of an entity Home Assistant does not have
NotFound ==
  [outcome |-> "http_error", status |-> "404", json |-> FALSE,
   payload |-> [text |-> "Entity not found."]]

Failures ==
  { [outcome |-> "http_error", status |-> "500", json |-> FALSE, payload |-> [text |-> "e1"]],
    [outcome |-> "network_error", status |-> "", json |-> FALSE, payload |-> EmptyObj] }

\* The Supervisor API answers with JSON or with text, the documentation
\* site with text.
Replies(call) ==
  Failures \cup
  { [outcome |-> "ok", status |-> "200", json |-> FALSE, payload |-> HAText] } \cup
  (IF call.base = SUPERVISOR_API
   THEN { [outcome |-> "ok", status |-> "200", json |-> TRUE, payload |-> HAJson] }
   ELSE {}) \cup
  (IF call.base = SUPERVISOR_API /\ Len(call.endpoint) = 2 /\ call.endpoint[1] = "states"
   THEN { [outcome |-> "ok", status |-> "200", json |-> TRUE, payload |-> HAJsonUnavailable],
          NotFound }
   ELSE {}) \cup
  (IF call.base = SUPERVISOR_API /\ Len(call.endpoint) = 7 /\ call.endpoint[6] = "minimal_response"
   THEN { [outcome |-> "ok", status |-> "200", json |-> TRUE, payload |-> HAJsonNoSeries] }
   ELSE {})

\* JSON.stringify(value, null, 2) of a reply's document
Stringify(value) == IF Has(value, "data") THEN value.data ELSE Str(value, "text")

\* callHA after the await of fetch: the value returned or the error thrown,
\* and the records logged.  isArray: the value has the array methods (a JSON
\* document; a text has none).
callHAResult(reply) ==
  CASE reply.outcome = "network_error" ->
         [ok |-> FALSE, message |-> <<"fetch failed">>, value |-> EmptyObj, isArray |-> FALSE,
          log |-> <<>>]
    [] reply.outcome = "http_error" ->
         [ok |-> FALSE,
          message |-> <<"HA API error (", reply.status, "): ", reply.payload.text>>,
          value |-> EmptyObj, isArray |-> FALSE,
          log |-> <<[level |-> "error", logger |-> "ha-api", action |-> "error"]>>]
    [] OTHER ->
         [ok |-> TRUE, message |-> <<>>, value |-> reply.payload, isArray |-> reply.json,
          log |-> IF reply.json
                  THEN <<[level |-> "debug", logger |-> "ha-api", action |-> "response"]>>
                  ELSE <<>>]

\* fetchUrl after the await of fetch: the text, or the error rethrown by its
\* catch after logging it.
fetchUrlResult(reply) ==
  CASE reply.outcome = "network_error" ->
         [ok |-> FALSE, message |-> <<"fetch failed">>, value |-> EmptyObj,
          log |-> <<[level |-> "error", logger |-> "docs", action |-> "fetch_error"]>>]
    [] reply.outcome = "http_error" ->
         [ok |-> FALSE, message |-> <<"HTTP ", reply.status, ": ", "statusText">>,
          value |-> EmptyObj,
          log |-> <<[level |-> "error", logger |-> "docs", action |-> "fetch_error"]>>]
    [] OTHER ->
         [ok |-> TRUE, message |-> <<>>, value |-> reply.payload, log |-> <<>>]

\* ------------------------------------------------------------ handler steps

\* A handler runs from one await to the next: it ends its run awaiting an
\* outbound request, returning a result or throwing an error.
Await(call, locals, log) ==
  [tag |-> "await", call |-> call, locals |-> locals, log |-> log \o requestLog(call),
   result |-> EmptyObj, message |-> <<>>]

Return(result, log) ==
  [tag |-> "return", call |-> EmptyObj, locals |-> EmptyObj, log |-> log,
   result |-> result, message |-> <<>>]

Throw(message, log) ==
  [tag |-> "throw", call |-> EmptyObj, locals |-> EmptyObj, log |-> log,
   result |-> EmptyObj, message |-> message]

TypeError == <<"TypeError">>

createTextContent(text, audience, priority) ==
  [type |-> "text", text |-> text,
   annotations |-> [audience |-> audience, priority |-> priority]]

\* One text item for the assistant / for user and assistant / for the user
Content(text, audience, priority) ==
  [content |-> <<createTextContent(text, audience, priority)>>]

\* ------------------------------------------------------------ tool handlers
\* The cases of the call-tool switch.  <tool>Start is the case up to its
\* first await (or to its end), <tool>Resume the case from the reply of its
\* pc-th outbound request on.  An args object that is missing is undefined:
\* `args?.x` is then undefined and `args.x` or a destructuring throws.

Assistant == <<"assistant">>
UserAssistant == <<"user", "assistant">>
User == <<"user">>

GET(endpoint) == callHA(endpoint, NoTime, "GET", NoBody)

\* A case made of one callHA whose failure is thrown
Failed(r) == Throw(r.message, r.log)

get_statesStart(hasArgs, args, now) ==
  IF Truthy(args, "entity_id")
  THEN Await(GET(<<"states", args.entity_id>>), [branch |-> "entity"], <<>>)
  ELSE Await(GET(<<"states">>), [branch |-> "all"], <<>>)

get_statesResume(hasArgs, args, pc, locals, reply, now) ==
  LET r == callHAResult(reply) IN
  IF ~r.ok THEN Failed(r)
  ELSE IF locals.branch = "entity"
  THEN Return(Content(<<Stringify(r.value)>>, Assistant, "0.8"), r.log)
  ELSE IF ~r.isArray THEN Throw(TypeError, r.log)
  ELSE LET scope == IF Truthy(args, "domain") THEN <<"domain", args.domain>> ELSE <<>> IN
       IF Truthy(args, "summarize")
       THEN Return(Content(<<"generateStateSummary", Stringify(r.value)>> \o scope,
                           UserAssistant, "0.9"), r.log)
       ELSE Return(Content(<<"simplified", Stringify(r.value)>> \o scope,
                           Assistant, "0.7"), r.log)

search_entitiesStart(hasArgs, args, now) == Await(GET(<<"states">>), EmptyObj, <<>>)

search_entitiesResume(hasArgs, args, pc, locals, reply, now) ==
  LET r == callHAResult(reply) IN
  IF ~r.ok THEN Failed(r)
  ELSE IF ~hasArgs \/ ~Has(args, "query") \/ ~r.isArray THEN Throw(TypeError, r.log)
  ELSE Return(Content(<<"searchEntities", Stringify(r.value), args.query>>,
                      Assistant, "0.8"), r.log)

\* getEntityRelationships up to its await
getEntityRelationshipsStart(locals) == Await(GET(<<"states">>), locals, <<>>)

\* getEntityRelationships that takes every entity as listed
getEntityRelationshipsFound(states, entityId) ==
  <<"getEntityRelationships", Stringify(states)>> \o entityId

\* getEntityRelationships after its await: states.find(...) and, when the
\* entity is not among the states, { error: "Entity not found" }; entityId
\* is the sequence of the parts of the id
getEntityRelationshipsResume(states, entityId) ==
  IF entityId = <<states.listed>>
  THEN <<"getEntityRelationships", Stringify(states)>> \o entityId
  ELSE <<"error", "Entity not found">>

get_entity_detailsStart(hasArgs, args, now) ==
  IF ~hasArgs THEN Throw(TypeError, <<>>)
  ELSE getEntityRelationshipsStart(EmptyObj)

get_entity_detailsResume(hasArgs, args, pc, locals, reply, now) ==
  LET r == callHAResult(reply) IN
  IF ~r.ok THEN Failed(r)
  ELSE IF ~r.isArray THEN Throw(TypeError, r.log)
  ELSE Return(Content(getEntityRelationshipsResume(r.value, <<Str(args, "entity_id")>>),
                      Assistant, "0.8"), r.log)

\* Object.assign(payload, target): the fields of target overwrite payload's
\* Object.assign with its operands exchanged: a field of the data wins
ObjectAssignDataWins(payload, target) ==
  [k \in DOMAIN payload \cup DOMAIN target |->
     IF k \in DOMAIN payload THEN payload[k] ELSE target[k]]

\* { ...data } then Object.assign(payload, target): a field of the target wins
ObjectAssign(payload, target) ==
  [k \in DOMAIN payload \cup DOMAIN target |->
     IF k \in DOMAIN target THEN target[k] ELSE payload[k]]

call_serviceStart(hasArgs, args, now) ==
  IF ~hasArgs THEN Throw(TypeError, <<>>)
  ELSE LET data == IF Has(args, "data") THEN args.data ELSE EmptyObj
           payload == IF Has(args, "target") THEN ObjectAssign(data, args.target) ELSE data
       IN Await(callHA(<<"services", Str(args, "domain"), Str(args, "service")>>, NoTime,
                       "POST", payload),
                EmptyObj,
                <<[level |-> "notice", logger |-> "ha-service", action |-> "call"]>>)

call_serviceResume(hasArgs, args, pc, locals, reply, now) ==
  LET r == callHAResult(reply) IN
  IF ~r.ok THEN Failed(r)
  ELSE Return(Content(<<"Service ", Str(args, "domain"), ".", Str(args, "service"),
                        " called successfully.", Stringify(r.value)>>,
                      UserAssistant, "0.9"), r.log)

get_servicesStart(hasArgs, args, now) == Await(GET(<<"services">>), EmptyObj, <<>>)

get_servicesResume(hasArgs, args, pc, locals, reply, now) ==
  LET r == callHAResult(reply) IN
  IF ~r.ok THEN Failed(r)
  ELSE IF Truthy(args, "domain") /\ ~r.isArray THEN Throw(TypeError, r.log)
  ELSE Return(Content(<<Stringify(r.value)>>
                      \o (IF Truthy(args, "domain") THEN <<"domain", args.domain>> ELSE <<>>),
                      Assistant, "0.6"), r.log)

\* args.start_time || new Date(Date.now() - 24h).toISOString()
StartTime(args, now) ==
  IF Truthy(args, "start_time") THEN [text |-> args.start_time, at |-> NoTime]
  ELSE [text |-> "now-24h", at |-> now]

Param(args, k, name) == IF Truthy(args, k) THEN <<name, args[k]>> ELSE <<>>

get_historyStart(hasArgs, args, now) ==
  IF ~hasArgs THEN Throw(TypeError, <<>>)
  ELSE LET start == StartTime(args, now) IN
       Await(callHA(<<"history", "period", start.text,
                      "filter_entity_id", Str(args, "entity_id")>>
                    \o Param(args, "end_time", "end_time")
                    \o (IF Truthy(args, "minimal")
                        THEN <<"minimal_response", "true", "no_attributes", "true">>
                        ELSE <<>>),
                    start.at, "GET", NoBody), EmptyObj, <<>>)

\* A case that returns the reply's document as JSON text
JsonResume(reply, audience, priority) ==
  LET r == callHAResult(reply) IN
  IF ~r.ok THEN Failed(r)
  ELSE Return(Content(<<Stringify(r.value)>>, audience, priority), r.log)

get_historyResume(hasArgs, args, pc, locals, reply, now) == JsonResume(reply, Assistant, "0.7")

get_logbookStart(hasArgs, args, now) ==
  IF ~hasArgs THEN Throw(TypeError, <<>>)
  ELSE LET start == StartTime(args, now) IN
       Await(callHA(<<"logbook", start.text>>
                    \o Param(args, "entity_id", "entity")
                    \o Param(args, "end_time", "end_time"),
                    start.at, "GET", NoBody), EmptyObj, <<>>)

get_logbookResume(hasArgs, args, pc, locals, reply, now) == JsonResume(reply, Assistant, "0.7")

get_configStart(hasArgs, args, now) == Await(GET(<<"config">>), EmptyObj, <<>>)

get_configResume(hasArgs, args, pc, locals, reply, now) == JsonResume(reply, Assistant, "0.6")

\* The template of get_areas and of ha://areas
AreaListTemplate == <<"{{ area_list | tojson }}">>

\* A case that returns the reply as the text it is
TextResume(reply, audience, priority) ==
  LET r == callHAResult(reply) IN
  IF ~r.ok THEN Failed(r)
  ELSE Return(Content(<<Stringify(r.value)>>, audience, priority), r.log)

get_areasStart(hasArgs, args, now) ==
  Await(callHA(<<"template">>, NoTime, "POST", [template |-> AreaListTemplate]), EmptyObj, <<>>)

get_areasResume(hasArgs, args, pc, locals, reply, now) == TextResume(reply, Assistant, "0.7")

get_devicesStart(hasArgs, args, now) ==
  LET template == IF Truthy(args, "area_id")
                  THEN <<"{{ area_devices('", args.area_id, "') | list }}">>
                  ELSE <<"{{ devices() | list }}">>
  IN Await(callHA(<<"template">>, NoTime, "POST", [template |-> template]), EmptyObj, <<>>)

get_devicesResume(hasArgs, args, pc, locals, reply, now) == TextResume(reply, Assistant, "0.6")

\* The check run through the homeassistant.check_config service instead
validate_configViaService(hasArgs, args, now) ==
  Await(callHA(<<"services", "homeassistant", "check_config">>, NoTime, "POST", NoBody),
        EmptyObj, <<>>)

validate_configStart(hasArgs, args, now) ==
  Await(callHA(<<"config", "core", "check_config">>, NoTime, "POST", NoBody), EmptyObj, <<>>)

validate_configResume(hasArgs, args, pc, locals, reply, now) ==
  JsonResume(reply, UserAssistant, "0.9")

get_error_logStart(hasArgs, args, now) == Await(GET(<<"error_log">>), EmptyObj, <<>>)

\* log.split: a JSON document has no split
get_error_logResume(hasArgs, args, pc, locals, reply, now) ==
  LET r == callHAResult(reply) IN
  IF ~r.ok THEN Failed(r)
  ELSE IF r.isArray THEN Throw(TypeError, r.log)
  ELSE Return(Content(<<"last lines", Stringify(r.value)>>
                      \o (IF Truthy(args, "lines") THEN <<args.lines>> ELSE <<"100">>),
                      Assistant, "0.8"), r.log)

fire_eventStart(hasArgs, args, now) ==
  IF ~hasArgs THEN Throw(TypeError, <<>>)
  ELSE Await(callHA(<<"events", Str(args, "event_type")>>, NoTime, "POST",
                    IF Has(args, "event_data") THEN args.event_data ELSE EmptyObj),
             EmptyObj,
             <<[level |-> "notice", logger |-> "ha-event", action |-> "fire"]>>)

fire_eventResume(hasArgs, args, pc, locals, reply, now) ==
  LET r == callHAResult(reply) IN
  IF ~r.ok THEN Failed(r)
  ELSE Return(Content(<<"Event '", Str(args, "event_type"), "' fired successfully.">>,
                      User, "0.9"), r.log)

\* JSON.stringify({ template: undefined }) is {}
render_templateStart(hasArgs, args, now) ==
  IF ~hasArgs THEN Throw(TypeError, <<>>)
  ELSE Await(callHA(<<"template">>, NoTime, "POST",
                    IF Has(args, "template") THEN [template |-> <<args.template>>] ELSE EmptyObj),
             EmptyObj, <<>>)

render_templateResume(hasArgs, args, pc, locals, reply, now) ==
  TextResume(reply, Assistant, "0.8")

get_calendarsStart(hasArgs, args, now) == Await(GET(<<"calendars">>), EmptyObj, <<>>)

get_calendarsResume(hasArgs, args, pc, locals, reply, now) ==
  JsonResume(reply, Assistant, "0.6")

get_calendar_eventsStart(hasArgs, args, now) ==
  IF ~hasArgs THEN Throw(TypeError, <<>>)
  ELSE LET readsClock == ~Truthy(args, "start") \/ ~Truthy(args, "end") IN
       Await(callHA(<<"calendars", Str(args, "calendar_entity"),
                      "start", IF Truthy(args, "start") THEN args.start ELSE "now",
                      "end", IF Truthy(args, "end") THEN args.end ELSE "now+7d">>,
                    IF readsClock THEN now ELSE NoTime, "GET", NoBody), EmptyObj, <<>>)

get_calendar_eventsResume(hasArgs, args, pc, locals, reply, now) ==
  JsonResume(reply, Assistant, "0.7")

\* detect_anomalies and get_suggestions scan the whole state list
detect_anomaliesStart(hasArgs, args, now) == Await(GET(<<"states">>), EmptyObj, <<>>)

detect_anomaliesResume(hasArgs, args, pc, locals, reply, now) ==
  LET r == callHAResult(reply) IN
  IF ~r.ok THEN Failed(r)
  ELSE IF ~r.isArray THEN Throw(TypeError, r.log)
  ELSE Return(Content(<<"detectAnomaly", Stringify(r.value), now>>
                      \o (IF Truthy(args, "domain") THEN <<"domain", args.domain>> ELSE <<>>),
                      UserAssistant, "0.9"), r.log)

get_suggestionsStart(hasArgs, args, now) == Await(GET(<<"states">>), EmptyObj, <<>>)

get_suggestionsResume(hasArgs, args, pc, locals, reply, now) ==
  LET r == callHAResult(reply) IN
  IF ~r.ok THEN Failed(r)
  ELSE IF ~r.isArray THEN Throw(TypeError, r.log)
  ELSE Return(Content(<<"generateSuggestions", Stringify(r.value)>>,
                      UserAssistant, "0.8"), r.log)

\* diagnose_entity: three requests inside an inner try whose catch appends
\* the 'Entity Lookup' check; the diagnostics are returned either way.
\* The report holds, before the checks, the state in current_state and the
\* state in relationships ("absent": the field was not set).
DiagnosticsFields(args, locals) ==
  <<"diagnostics", Str(args, "entity_id"), locals.timestamp,
    IF Has(locals, "state") THEN Str(locals.state, "state") ELSE "absent",
    IF Has(locals, "relationships") THEN locals.relationships ELSE "absent">>

\* A response whose failed lookup replaces the checks made before it
DiagnosticsResponseLookupOnly(args, locals, checks, log) ==
  Return(Content(DiagnosticsFields(args, locals)
                 \o (IF Len(checks) > 0 /\ checks[Len(checks)] = "Entity Lookup"
                     THEN <<"Entity Lookup">> ELSE checks), Assistant, "0.9"), log)

DiagnosticsResponse(args, locals, checks, log) ==
  Return(Content(DiagnosticsFields(args, locals) \o checks, Assistant, "0.9"), log)

diagnose_entityStart(hasArgs, args, now) ==
  IF ~hasArgs THEN Throw(TypeError, <<>>)
  ELSE Await(GET(<<"states", Str(args, "entity_id")>>),
             [timestamp |-> now, checks |-> <<>>],
             <<[level |-> "info", logger |-> "diagnostics", action |-> "diagnose"]>>)

\* history && history[0]
HasSeries(history) == Has(history, "data") \/ Truthy(history, "text")

\* detectAnomaly(state) of the diagnosed entity reports something
HasAnomaly(state) == Has(state, "anomaly")

diagnose_entityResume(hasArgs, args, pc, locals, reply, now) ==
  LET r == callHAResult(reply)
      lookup == DiagnosticsResponse(args, locals, locals.checks \o <<"Entity Lookup">>, r.log)
  IN
  IF ~r.ok THEN lookup
  ELSE CASE pc = 1 ->
         LET state == r.value
             checks == <<"Current State">>
                       \o (IF Str(state, "state") \in {"unavailable", "unknown"}
                           THEN <<"Availability">> ELSE <<>>)
             step == getEntityRelationshipsStart(
                       [timestamp |-> locals.timestamp, checks |-> checks, state |-> state])
         IN [step EXCEPT !.log = r.log \o @]
       [] pc = 2 ->
         IF ~r.isArray THEN lookup
         ELSE LET step == Await(callHA(<<"history", "period", "now-24h",
                                         "filter_entity_id", Str(args, "entity_id"),
                                         "minimal_response", "true">>, now, "GET", NoBody),
                                [timestamp |-> locals.timestamp,
                                 checks |-> locals.checks \o <<"Relationships">>,
                                 state |-> locals.state,
                                 relationships |->
                                   \* relationships.state, or the error object
                                   IF r.value.listed = Str(args, "entity_id")
                                   THEN r.value.state ELSE "Entity not found"], <<>>)
              IN [step EXCEPT !.log = r.log \o @]
       [] OTHER ->
         LET activity == IF HasSeries(r.value) THEN <<"Activity">> ELSE <<>>
         IN \* detectAnomaly destructures state.entity_id: a text has none
            IF ~Has(locals.state, "data") THEN
              DiagnosticsResponse(args, locals,
                                  locals.checks \o activity \o <<"Entity Lookup">>, r.log)
            ELSE
              DiagnosticsResponse(args, locals,
                                  locals.checks \o activity
                                  \o (IF HasAnomaly(locals.state)
                                      THEN <<"Anomaly Detection">> ELSE <<>>), r.log)

\* config.version || "unknown", and "unknown" when the lookup failed
HaVersion(r) == IF r.ok /\ Truthy(r.value, "version") THEN r.value.version ELSE "unknown"

VersionLog(r) ==
  r.log \o (IF r.ok THEN <<>>
            ELSE <<[level |-> "warning", logger |-> "docs", action |-> "version_fetch_failed"]>>)

get_integration_docsStart(hasArgs, args, now) ==
  IF ~hasArgs THEN Throw(TypeError, <<>>)
  ELSE Await(GET(<<"config">>), EmptyObj,
             <<[level |-> "info", logger |-> "docs", action |-> "get_integration_docs"]>>)

get_integration_docsResume(hasArgs, args, pc, locals, reply, now) ==
  LET url == <<"integrations", Str(args, "integration")>> IN
  IF pc = 1
  THEN LET r == callHAResult(reply)
           step == Await(fetchUrl(url), [haVersion |-> HaVersion(r)], <<>>)
       IN [step EXCEPT !.log = VersionLog(r) \o @]
  ELSE LET f == fetchUrlResult(reply) IN
       IF ~f.ok
       THEN Return(Content(<<"Unable to fetch documentation for '", Str(args, "integration"), "'">>
                           \o url \o f.message \o <<locals.haVersion>>, Assistant, "0.8"), f.log)
       ELSE Return(Content(<<"# ", Str(args, "integration")>> \o url
                           \o <<locals.haVersion, now, "extractContentFromHtml",
                                Stringify(f.value),
                                IF Has(args, "section") THEN args.section ELSE "configuration">>,
                           Assistant, "0.9"), f.log)

\* The curated list of get_breaking_changes: version and integration
\* ("null" for a change of no single integration)
knownBreakingChanges ==
  << [version |-> "2024.12", integration |-> "template"],
     [version |-> "2024.11", integration |-> "mqtt"],
     [version |-> "2024.10", integration |-> "rest"],
     [version |-> "2024.8",  integration |-> "automation"],
     [version |-> "2024.6",  integration |-> "time_date"],
     [version |-> "2024.4",  integration |-> "template"],
     [version |-> "2024.1",  integration |-> "template"],
     [version |-> "2023.12", integration |-> "null"],
     [version |-> "2023.8",  integration |-> "null"],
     [version |-> "2023.3",  integration |-> "light"] >>

\* A filter that keeps only the changes of the integration itself
filteredChangesOwn(args) ==
  LET ByIntegration(c) == ~Truthy(args, "integration") \/ c.integration = args.integration
      ByVersion(c) == ~Truthy(args, "version") \/ c.version = args.version
      Keep(c) == ByIntegration(c) /\ ByVersion(c)
  IN SelectSeq(knownBreakingChanges, Keep)

filteredChanges(args) ==
  LET ByIntegration(c) ==
        ~Truthy(args, "integration")
        \/ c.integration = args.integration \/ c.integration = "null"
      ByVersion(c) == ~Truthy(args, "version") \/ c.version = args.version
      Keep(c) == ByIntegration(c) /\ ByVersion(c)
  IN SelectSeq(knownBreakingChanges, Keep)

\* haVersion.split(".").slice(0, 2).join(".")
MajorMinor(haVersion) == IF haVersion = "2024.6.1" THEN "2024.6" ELSE haVersion

ChangeTexts(changes) == [i \in 1..Len(changes) |-> changes[i].version]

get_breaking_changesStart(hasArgs, args, now) ==
  IF ~hasArgs THEN Throw(TypeError, <<>>)
  ELSE Await(GET(<<"config">>), EmptyObj,
             <<[level |-> "info", logger |-> "docs", action |-> "get_breaking_changes"]>>)

get_breaking_changesResume(hasArgs, args, pc, locals, reply, now) ==
  IF pc = 1
  THEN LET r == callHAResult(reply)
           haVersion == HaVersion(r)
           targetVersion == IF Truthy(args, "version") THEN args.version
                            ELSE MajorMinor(haVersion)
           step == Await(fetchUrl(<<"blog", targetVersion>>), [haVersion |-> haVersion], <<>>)
       IN [step EXCEPT !.log = VersionLog(r) \o @]
  ELSE LET f == fetchUrlResult(reply)
           notes == IF f.ok THEN <<"release notes", Stringify(f.value)>> ELSE <<>>
           log == f.log \o (IF f.ok THEN <<>>
                            ELSE <<[level |-> "debug", logger |-> "docs",
                                    action |-> "release_notes_fetch_failed"]>>)
       IN Return(Content(<<"# Breaking Changes", locals.haVersion,
                           IF Truthy(args, "integration") THEN args.integration ELSE "all",
                           IF Truthy(args, "version") THEN args.version ELSE "recent">>
                         \o ChangeTexts(filteredChanges(args)) \o notes,
                         Assistant, "0.9"), log)

\* ------------------------------------------------- deprecation pattern check
\* A YAML text is the sequence of its lines; a line is `<indent>[- ]key: val`,
\* possibly holding a tab character.

Line(ind, dash, key, val) == [ind |-> ind, dash |-> dash, key |-> key, val |-> val, tab |-> FALSE]

\* DEPRECATION_PATTERNS: what the regular expression asks of the line the
\* match starts in (key, top: anchored at the start of the line, val) and of
\* the line after it (key2, val2; "" when the expression is one line), the
\* dash allowed before the key, the flags of the RegExp object, and the
\* other fields of the entry ("none": the field is absent).
DEPRECATION_PATTERNS ==
  << [key |-> "sensor", top |-> TRUE, dash |-> "no", key2 |-> "platform", val2 |-> {"template"},
      flags |-> "m", integration |-> "template", deprecated_in |-> "2024.1", severity |-> "none"],
     [key |-> "binary_sensor", top |-> TRUE, dash |-> "no", key2 |-> "platform", val2 |-> {"template"},
      flags |-> "m", integration |-> "template", deprecated_in |-> "2024.1", severity |-> "none"],
     [key |-> "entity_namespace", top |-> FALSE, dash |-> "any", key2 |-> "", val2 |-> {},
      flags |-> "m", integration |-> "none", deprecated_in |-> "2023.8", severity |-> "none"],
     [key |-> "platform:time_date", top |-> FALSE, dash |-> "yes", key2 |-> "", val2 |-> {},
      flags |-> "m", integration |-> "time_date", deprecated_in |-> "2024.6", severity |-> "none"],
     [key |-> "automation", top |-> FALSE, dash |-> "any", key2 |-> "alias", val2 |-> {},
      flags |-> "m", integration |-> "none", deprecated_in |-> "none", severity |-> "info"],
     [key |-> "device_tracker", top |-> FALSE, dash |-> "any", key2 |-> "platform",
      val2 |-> {"nmap", "netgear", "ping"},
      flags |-> "m", integration |-> "none", deprecated_in |-> "none", severity |-> "info"],
     [key |-> "cover", top |-> FALSE, dash |-> "any", key2 |-> "platform", val2 |-> {"template"},
      flags |-> "m", integration |-> "template", deprecated_in |-> "2024.1", severity |-> "none"],
     [key |-> "switch", top |-> FALSE, dash |-> "any", key2 |-> "platform", val2 |-> {"template"},
      flags |-> "m", integration |-> "template", deprecated_in |-> "2024.4", severity |-> "none"],
     [key |-> "homeassistant", top |-> FALSE, dash |-> "any", key2 |-> "customize", val2 |-> {},
      flags |-> "m", integration |-> "none", deprecated_in |-> "none", severity |-> "info"],
     [key |-> "white_value", top |-> FALSE, dash |-> "no", key2 |-> "", val2 |-> {},
      flags |-> "m", integration |-> "none", deprecated_in |-> "2023.3", severity |-> "none"] >>

PatternIds == 1..Len(DEPRECATION_PATTERNS)

\* The pattern's regular expression matches the text from line i on.
MatchAt(p, yaml, i) ==
  LET line == yaml[i] IN
  IF p.key = "platform:time_date"
  THEN line.dash /\ line.key = "platform" /\ line.val = "time_date"
  ELSE IF p.key2 = ""
  THEN /\ line.key = p.key
       /\ (p.dash = "no" => ~line.dash)
  ELSE /\ line.key = p.key /\ line.val = ""
       /\ (p.top => line.ind = 0 /\ ~line.dash)
       /\ i < Len(yaml)
       /\ yaml[i + 1].key = p.key2
       /\ (p.val2 # {} => yaml[i + 1].val \in p.val2)
       /\ (p.key2 = "customize" => ~yaml[i + 1].dash)

\* RegExp.prototype.test: a RegExp with the g (or y) flag searches from its
\* lastIndex on and moves it behind the match, or back to 0 when there is
\* none; any other leaves lastIndex alone and searches from the start.
\* Positions are counted in lines.
\* Every expression taken for one with the g flag
IsGlobalAlways(flags) == TRUE

IsGlobal(flags) == flags \in {"g", "gm", "y", "my"}

RegExpTest(p, li, yaml) ==
  LET from == IF IsGlobal(p.flags) THEN li ELSE 0
      hits == {i \in 1..Len(yaml) : i > from /\ MatchAt(p, yaml, i)}
      first == CHOOSE i \in hits : \A j \in hits : i <= j
  IN [matched |-> hits # {},
      lastIndex |-> IF ~IsGlobal(p.flags) THEN li
                    ELSE IF hits = {} THEN 0
                    ELSE IF p.key2 = "" THEN first ELSE first + 1]

\* test(undefined) tests the text "undefined", which no pattern matches
NoYaml == <<>>

RECURSIVE checkPatterns(_, _, _, _, _)
checkPatterns(n, yaml, integration, li, acc) ==
  IF n > Len(DEPRECATION_PATTERNS) THEN [acc EXCEPT !.lastIndex = li]
  ELSE LET p == DEPRECATION_PATTERNS[n] IN
       IF integration # "" /\ p.integration # "none" /\ p.integration # integration
       THEN checkPatterns(n + 1, yaml, integration, li, acc)
       ELSE LET t == RegExpTest(p, li[n], yaml)
                li2 == [li EXCEPT ![n] = t.lastIndex]
            IN IF ~t.matched THEN checkPatterns(n + 1, yaml, integration, li2, acc)
               ELSE checkPatterns(n + 1, yaml, integration, li2,
                      [acc EXCEPT
                         !.deprecated = @ \/ p.deprecated_in # "none",
                         !.warnings = @ \o <<[tag |-> IF p.deprecated_in # "none"
                                                      THEN "DEPRECATED" ELSE "INFO",
                                              since |-> p.deprecated_in,
                                              pattern |-> n]>>,
                         !.suggestions = @ \o <<n>>])

\* A check in which every matched pattern counts as a deprecation
checkConfigEveryMatchDeprecates(yamlConfig, integration, li) ==
  LET c == checkPatterns(1, yamlConfig, integration, li,
                         [deprecated |-> FALSE, warnings |-> <<>>, suggestions |-> <<>>,
                          lastIndex |-> li])
  IN [c EXCEPT !.deprecated = c.warnings # <<>>]

\* integration: "" is null (the default of an argument that is undefined)
checkConfigForDeprecations(yamlConfig, integration, li) ==
  checkPatterns(1, yamlConfig, integration, li,
                [deprecated |-> FALSE, warnings |-> <<>>, suggestions |-> <<>>,
                 lastIndex |-> li])

WarningText(w) ==
  IF w.tag = "DEPRECATED" THEN <<"[DEPRECATED since ", w.since, "]", ToString(w.pattern)>>
  ELSE IF w.tag = "INFO" THEN <<"[INFO]", ToString(w.pattern)>>
  ELSE <<w.since>>

RECURSIVE Flatten(_)
Flatten(texts) == IF texts = <<>> THEN <<>> ELSE Head(texts) \o Flatten(Tail(texts))

\* The result object of check_config_syntax
ConfigSyntaxResult(yaml, integration, li) ==
  LET c == checkConfigForDeprecations(yaml, integration, li)
      lines == SeqToSet(yaml)
      additionalWarnings ==
        (IF \E l \in lines : l.tab
         THEN <<[tag |-> "", since |-> "Tab characters detected.", pattern |-> 0]>> ELSE <<>>)
        \o (IF ~\E l \in lines : l.ind = 0 /\ ~l.dash
            THEN <<[tag |-> "", since |-> "No top-level key detected.", pattern |-> 0]>>
            ELSE <<>>)
      additionalSuggestions ==
        (IF \E l \in lines : l.tab THEN <<"Replace all tabs with spaces">> ELSE <<>>)
        \o (IF \E l \in lines : l.val = "|" THEN <<"Multi-line strings">> ELSE <<>>)
        \o (IF \E l \in lines : l.key = "entity_id" /\ l.val = "a,b"
            THEN <<"Multiple entity_ids">> ELSE <<>>)
      allWarnings == c.warnings \o additionalWarnings
  IN [valid |-> ~\E i \in 1..Len(allWarnings) : allWarnings[i].tag = "DEPRECATED",
      deprecated |-> c.deprecated,
      warnings |-> allWarnings,
      suggestions |-> [i \in 1..Len(c.suggestions) |-> ToString(c.suggestions[i])]
                      \o additionalSuggestions,
      docs_url |-> IF integration # "" THEN <<"integrations", integration>>
                   ELSE <<"docs", "configuration">>,
      lastIndex |-> c.lastIndex]

\* The case asking Home Assistant for its configuration check first
check_config_syntaxViaValidate(hasArgs, args, now, li) ==
  Await(callHA(<<"config", "core", "check_config">>, NoTime, "POST", NoBody), EmptyObj, <<>>)

check_config_syntaxStart(hasArgs, args, now, li) ==
  LET log == <<[level |-> "info", logger |-> "docs", action |-> "check_config_syntax"]>> IN
  IF ~hasArgs THEN Throw(TypeError, <<>>)
  ELSE LET integration == IF Truthy(args, "integration") THEN args.integration ELSE ""
           yaml == IF Has(args, "yaml_config") THEN args.yaml_config ELSE NoYaml
           result == ConfigSyntaxResult(yaml, integration, li)
       IN IF ~Has(args, "yaml_config") THEN Throw(TypeError, log)
          ELSE Return(Content(<<"# Configuration Syntax Check",
                                IF result.valid THEN "OK" ELSE "Issues Found",
                                IF result.deprecated THEN "Yes" ELSE "No">>
                              \o result.docs_url
                              \o Flatten([i \in 1..Len(result.warnings) |->
                                            WarningText(result.warnings[i])])
                              \o result.suggestions,
                              Assistant, "0.9"), log)

\* The lastIndex fields after the RegExp tests of a check_config_syntax call
check_config_syntaxLastIndex(hasArgs, args, li) ==
  IF ~hasArgs THEN li
  ELSE checkConfigForDeprecations(
         IF Has(args, "yaml_config") THEN args.yaml_config ELSE NoYaml,
         IF Truthy(args, "integration") THEN args.integration ELSE "", li).lastIndex

\* ------------------------------------------------------ the call-tool handler

\* TOOLS: name and annotations
Tool(name, readOnly) ==
  [name |-> name, readOnly |-> readOnly, destructive |-> ~readOnly, idempotent |-> readOnly]

TOOLS ==
  << Tool("get_states", TRUE), Tool("search_entities", TRUE), Tool("get_entity_details", TRUE),
     Tool("call_service", FALSE), Tool("get_services", TRUE), Tool("get_history", TRUE),
     Tool("get_logbook", TRUE), Tool("get_config", TRUE), Tool("get_areas", TRUE),
     Tool("get_devices", TRUE), Tool("validate_config", TRUE), Tool("get_error_log", TRUE),
     Tool("fire_event", FALSE), Tool("render_template", TRUE), Tool("get_calendars", TRUE),
     Tool("get_calendar_events", TRUE), Tool("detect_anomalies", TRUE),
     Tool("get_suggestions", TRUE), Tool("diagnose_entity", TRUE),
     Tool("get_integration_docs", TRUE), Tool("get_breaking_changes", TRUE),
     Tool("check_config_syntax", TRUE) >>

ToolNames == {TOOLS[i].name : i \in 1..Len(TOOLS)}

UnknownTool(name) == Throw(<<"Unknown tool: ", name>>, <<>>)

\* switch (name): the case up to its first await
ToolStart(name, hasArgs, args, now, li) ==
  CASE name = "get_states" -> get_statesStart(hasArgs, args, now)
    [] name = "search_entities" -> search_entitiesStart(hasArgs, args, now)
    [] name = "get_entity_details" -> get_entity_detailsStart(hasArgs, args, now)
    [] name = "call_service" -> call_serviceStart(hasArgs, args, now)
    [] name = "get_services" -> get_servicesStart(hasArgs, args, now)
    [] name = "get_history" -> get_historyStart(hasArgs, args, now)
    [] name = "get_logbook" -> get_logbookStart(hasArgs, args, now)
    [] name = "get_config" -> get_configStart(hasArgs, args, now)
    [] name = "get_areas" -> get_areasStart(hasArgs, args, now)
    [] name = "get_devices" -> get_devicesStart(hasArgs, args, now)
    [] name = "validate_config" -> validate_configStart(hasArgs, args, now)
    [] name = "get_error_log" -> get_error_logStart(hasArgs, args, now)
    [] name = "fire_event" -> fire_eventStart(hasArgs, args, now)
    [] name = "render_template" -> render_templateStart(hasArgs, args, now)
    [] name = "get_calendars" -> get_calendarsStart(hasArgs, args, now)
    [] name = "get_calendar_events" -> get_calendar_eventsStart(hasArgs, args, now)
    [] name = "detect_anomalies" -> detect_anomaliesStart(hasArgs, args, now)
    [] name = "get_suggestions" -> get_suggestionsStart(hasArgs, args, now)
    [] name = "diagnose_entity" -> diagnose_entityStart(hasArgs, args, now)
    [] name = "get_integration_docs" -> get_integration_docsStart(hasArgs, args, now)
    [] name = "get_breaking_changes" -> get_breaking_changesStart(hasArgs, args, now)
    [] name = "check_config_syntax" -> check_config_syntaxStart(hasArgs, args, now, li)
    [] OTHER -> UnknownTool(name)

\* the case from the reply of its pc-th request on
ToolResume(name, hasArgs, args, pc, locals, reply, now) ==
  CASE name = "get_states" -> get_statesResume(hasArgs, args, pc, locals, reply, now)
    [] name = "search_entities" -> search_entitiesResume(hasArgs, args, pc, locals, reply, now)
    [] name = "get_entity_details" -> get_entity_detailsResume(hasArgs, args, pc, locals, reply, now)
    [] name = "call_service" -> call_serviceResume(hasArgs, args, pc, locals, reply, now)
    [] name = "get_services" -> get_servicesResume(hasArgs, args, pc, locals, reply, now)
    [] name = "get_history" -> get_historyResume(hasArgs, args, pc, locals, reply, now)
    [] name = "get_logbook" -> get_logbookResume(hasArgs, args, pc, locals, reply, now)
    [] name = "get_config" -> get_configResume(hasArgs, args, pc, locals, reply, now)
    [] name = "get_areas" -> get_areasResume(hasArgs, args, pc, locals, reply, now)
    [] name = "get_devices" -> get_devicesResume(hasArgs, args, pc, locals, reply, now)
    [] name = "validate_config" -> validate_configResume(hasArgs, args, pc, locals, reply, now)
    [] name = "get_error_log" -> get_error_logResume(hasArgs, args, pc, locals, reply, now)
    [] name = "fire_event" -> fire_eventResume(hasArgs, args, pc, locals, reply, now)
    [] name = "render_template" -> render_templateResume(hasArgs, args, pc, locals, reply, now)
    [] name = "get_calendars" -> get_calendarsResume(hasArgs, args, pc, locals, reply, now)
    [] name = "get_calendar_events" ->
         get_calendar_eventsResume(hasArgs, args, pc, locals, reply, now)
    [] name = "detect_anomalies" -> detect_anomaliesResume(hasArgs, args, pc, locals, reply, now)
    [] name = "get_suggestions" -> get_suggestionsResume(hasArgs, args, pc, locals, reply, now)
    [] name = "diagnose_entity" -> diagnose_entityResume(hasArgs, args, pc, locals, reply, now)
    [] name = "get_integration_docs" ->
         get_integration_docsResume(hasArgs, args, pc, locals, reply, now)
    [] OTHER -> get_breaking_changesResume(hasArgs, args, pc, locals, reply, now)

\* Keep only the standard fields: content, and isError when it is set
makeCompatibleResponse(result) ==
  IF Has(result, "isError") /\ result.isError
  THEN [content |-> result.content, isError |-> result.isError]
  ELSE [content |-> result.content]

\* The catch of the call-tool handler
ToolError(message) ==
  [content |-> <<createTextContent(<<"Error: ">> \o message, User, "1.0")>>,
   isError |-> TRUE]

\* The handler without its catch: an error thrown by a case fails the request
CallToolOutcomeRethrow(step) ==
  IF step.tag = "return" THEN [step EXCEPT !.result = makeCompatibleResponse(@)] ELSE step

\* The try/catch around the switch: a case that returns hands its result to
\* makeCompatibleResponse, a case that throws is answered with ToolError.
CallToolOutcome(step) ==
  CASE step.tag = "return" ->
         [step EXCEPT !.result = makeCompatibleResponse(@)]
    [] step.tag = "throw" ->
         [step EXCEPT !.tag = "return",
                      !.result = makeCompatibleResponse(ToolError(step.message)),
                      !.message = <<>>,
                      !.log = @ \o <<[level |-> "error", logger |-> "mcp-server",
                                      action |-> "tool_error"]>>]
    [] OTHER -> step

\* -------------------------------------------------- the read-resource handler
\* A URI is the sequence of its parts: <<"ha:", "states", "summary">> is
\* ha://states/summary.

Uri(a) == <<"ha:", a>>
Uri2(a, b) == <<"ha:", a, b>>

\* The list with a URI the handler has no branch for
ResourcesWithDevices ==
  << Uri2("states", "summary"), Uri("automations"), Uri("scripts"), Uri("scenes"),
     Uri("areas"), Uri("config"), Uri("integrations"), Uri("anomalies"), Uri("devices") >>

RESOURCES ==
  << Uri2("states", "summary"), Uri("automations"), Uri("scripts"), Uri("scenes"),
     Uri("areas"), Uri("config"), Uri("integrations"), Uri("anomalies"), Uri("suggestions") >>

RESOURCE_TEMPLATES == <<"states", "entity", "area", "history">>

\* \w+ : the part is a non-empty run of letters, digits and underscores
Words == {"summary", "light", "sensor"}
IsWord(part) == part \in Words

\* ^ha:\/\/states\/(\w+)$
statesMatch(uri) == Len(uri) = 3 /\ uri[1] = "ha:" /\ uri[2] = "states" /\ IsWord(uri[3])

\* ^ha:\/\/<head>\/(.+)$ : something, slashes included, follows the head
RestMatch(uri, head) ==
  /\ Len(uri) >= 3 /\ uri[1] = "ha:" /\ uri[2] = head
  /\ (Len(uri) = 3 => uri[3] # "")

Contents(uri, mimeType, text, audience, priority) ==
  [contents |-> <<[uri |-> uri, mimeType |-> mimeType, text |-> text,
                   annotations |-> [audience |-> audience, priority |-> priority]]>>]

UnknownResource(uri) == Throw(<<"Unknown resource: ">> \o uri, <<>>)

\* the handler up to its first await
ResourceStart(uri, now) ==
  CASE uri \in {Uri2("states", "summary"), Uri("automations"), Uri("scripts"), Uri("scenes"),
                Uri("anomalies"), Uri("suggestions")} ->
         Await(GET(<<"states">>), EmptyObj, <<>>)
    [] uri = Uri("areas") ->
         Await(callHA(<<"template">>, NoTime, "POST", [template |-> AreaListTemplate]),
               EmptyObj, <<>>)
    [] uri \in {Uri("config"), Uri("integrations")} ->
         Await(GET(<<"config">>), EmptyObj, <<>>)
    [] OTHER ->
         IF statesMatch(uri) THEN Await(GET(<<"states">>), [match |-> "states"], <<>>)
         ELSE IF RestMatch(uri, "entity") THEN getEntityRelationshipsStart([match |-> "entity"])
         ELSE IF RestMatch(uri, "area") THEN Await(GET(<<"states">>), [match |-> "area"], <<>>)
         ELSE IF RestMatch(uri, "history")
         THEN Await(callHA(<<"history", "period", "now-24h", "filter_entity_id">>
                           \o SubSeq(uri, 3, Len(uri)) \o <<"minimal_response", "true">>,
                           now, "GET", NoBody),
                    [match |-> "history"], <<>>)
         ELSE UnknownResource(uri)

\* the handler from the reply of its pc-th request on
ResourceResume(uri, pc, locals, reply, now) ==
  LET r == callHAResult(reply)
      json == "application/json"
      rest == SubSeq(uri, 3, Len(uri))
  IN
  IF ~r.ok THEN Failed(r)
  ELSE CASE uri = Uri2("states", "summary") ->
         IF ~r.isArray THEN Throw(TypeError, r.log)
         ELSE Return(Contents(uri, "text/markdown",
                              <<"generateStateSummary", Stringify(r.value)>>,
                              UserAssistant, "0.9"), r.log)
       [] uri \in {Uri("automations"), Uri("scripts"), Uri("scenes")} ->
         IF ~r.isArray THEN Throw(TypeError, r.log)
         ELSE Return(Contents(uri, json, <<uri[2], Stringify(r.value)>>, Assistant,
                              IF uri = Uri("automations") THEN "0.7" ELSE "0.6"), r.log)
       [] uri = Uri("areas") ->
         Return(Contents(uri, json, <<Stringify(r.value)>>, Assistant, "0.7"), r.log)
       [] uri = Uri("config") ->
         Return(Contents(uri, json, <<Stringify(r.value)>>, Assistant, "0.5"), r.log)
       [] uri = Uri("integrations") ->
         Return(Contents(uri, json, <<"components", Stringify(r.value)>>, Assistant, "0.4"),
                r.log)
       [] uri = Uri("anomalies") ->
         IF ~r.isArray THEN Throw(TypeError, r.log)
         ELSE Return(Contents(uri, json, <<"detectAnomaly", Stringify(r.value), now>>,
                              UserAssistant, "0.8"), r.log)
       [] uri = Uri("suggestions") ->
         IF ~r.isArray THEN Throw(TypeError, r.log)
         ELSE Return(Contents(uri, json, <<"generateSuggestions", Stringify(r.value)>>,
                              UserAssistant, "0.7"), r.log)
       [] OTHER ->
         CASE locals.match = "states" ->
                IF ~r.isArray THEN Throw(TypeError, r.log)
                ELSE Return(Contents(uri, json, <<"simplified", Stringify(r.value), uri[3]>>,
                                     Assistant, "0.7"), r.log)
           [] locals.match = "entity" ->
                IF ~r.isArray THEN Throw(TypeError, r.log)
                ELSE Return(Contents(uri, json, getEntityRelationshipsResume(r.value, rest),
                                     Assistant, "0.8"), r.log)
           [] locals.match = "area" ->
                IF pc = 1
                THEN IF ~r.isArray THEN Throw(TypeError, r.log)
                     ELSE LET step == Await(callHA(<<"template">>, NoTime, "POST",
                                              [template |-> <<"{{ area_name('">> \o rest
                                                            \o <<"') }}">>]),
                                            [match |-> "area", states |-> r.value], <<>>)
                          IN [step EXCEPT !.log = r.log \o @]
                ELSE Return(Contents(uri, json,
                                     <<"area">> \o rest
                                     \o <<Stringify(r.value), Stringify(locals.states)>>,
                                     Assistant, "0.7"), r.log)
           [] OTHER ->
                Return(Contents(uri, json, <<Stringify(r.value)>>, Assistant, "0.6"), r.log)

\* The catch of the read-resource handler: the error is logged and rethrown
ReadResourceOutcome(uri, step) ==
  IF step.tag = "throw"
  THEN [step EXCEPT !.message = <<"Failed to read resource ">> \o uri \o <<": ">> \o @,
                    !.log = @ \o <<[level |-> "error", logger |-> "mcp-server",
                                    action |-> "read_resource_error"]>>]
  ELSE step

\* ----------------------------------------------------- the get-prompt handler

\* PROMPTS: name, and the arguments with their required flag
PROMPTS ==
  << [name |-> "troubleshoot_entity",
      arguments |-> <<[name |-> "entity_id", required |-> TRUE],
                      [name |-> "problem_description", required |-> FALSE]>>],
     [name |-> "create_automation",
      arguments |-> <<[name |-> "goal", required |-> TRUE]>>],
     [name |-> "energy_audit", arguments |-> <<>>],
     [name |-> "scene_builder",
      arguments |-> <<[name |-> "area", required |-> FALSE],
                      [name |-> "mood", required |-> FALSE]>>],
     [name |-> "security_review", arguments |-> <<>>],
     [name |-> "morning_routine",
      arguments |-> <<[name |-> "wake_time", required |-> FALSE]>>] >>

PromptNames == {PROMPTS[i].name : i \in 1..Len(PROMPTS)}

\* A required argument tested for presence only
MissingOnlyAbsent(args, k) == ~Has(args, k)

\* const v = args?.k; if (!v) throw
Missing(args, k) == ~Truthy(args, k)

\* args?.k || fallback
OrDefault(args, k, fallback) == IF Truthy(args, k) THEN args[k] ELSE fallback

Messages(description, text) ==
  [description |-> description,
   messages |-> <<[role |-> "user", content |-> [type |-> "text", text |-> text]]>>]

\* switch (name) of the get-prompt handler
PromptStart(name, args) ==
  CASE name = "troubleshoot_entity" ->
         IF Missing(args, "entity_id") THEN Throw(<<"entity_id is required">>, <<>>)
         ELSE Return(Messages(<<"Troubleshooting guide for ", args.entity_id>>,
                              <<"troubleshoot", args.entity_id,
                                OrDefault(args, "problem_description",
                                          "not working as expected")>>), <<>>)
    [] name = "create_automation" ->
         IF Missing(args, "goal") THEN Throw(<<"goal is required">>, <<>>)
         ELSE Return(Messages(<<"Automation creation guide">>,
                              <<"create automation", args.goal>>), <<>>)
    [] name = "energy_audit" ->
         Return(Messages(<<"Energy usage audit and optimization">>, <<"energy audit">>), <<>>)
    [] name = "scene_builder" ->
         Return(Messages(<<"Scene builder">>,
                         <<"scene", OrDefault(args, "area", "the specified area"),
                           OrDefault(args, "mood", "comfortable")>>), <<>>)
    [] name = "security_review" ->
         Return(Messages(<<"Security review">>, <<"security review">>), <<>>)
    [] name = "morning_routine" ->
         Return(Messages(<<"Morning routine designer">>,
                         <<"morning routine", OrDefault(args, "wake_time", "7:00 AM")>>), <<>>)
    [] OTHER -> Throw(<<"Unknown prompt: ", name>>, <<>>)

\* The catch of the get-prompt handler
GetPromptOutcome(name, step) ==
  IF step.tag = "throw"
  THEN [step EXCEPT !.message = <<"Failed to get prompt ", name, ": ">> \o @,
                    !.log = @ \o <<[level |-> "error", logger |-> "mcp-server",
                                    action |-> "get_prompt_error"]>>]
  ELSE step

\* ------------------------------------------------------------------ requests

Request(kind, name, uri, hasArgs, args) ==
  [kind |-> kind, name |-> name, uri |-> uri, hasArgs |-> hasArgs, args |-> args]

\* The YAML texts of the check_config_syntax calls
LegacySensorYaml ==
  <<Line(0, FALSE, "sensor", ""), Line(2, TRUE, "platform", "template")>>
WhiteValueYaml ==
  <<Line(0, FALSE, "light", ""), Line(2, FALSE, "white_value", "1"),
    Line(2, FALSE, "white_value", "2")>>
CleanYaml == <<Line(0, FALSE, "template", ""), Line(2, TRUE, "sensor", "")>>
Yamls == {LegacySensorYaml, WhiteValueYaml, CleanYaml}

Target1 == [entity_id |-> "light.a"]
Data1 == [brightness |-> "255"]
Data2 == [entity_id |-> "light.b", brightness |-> "255"]

\* The arguments objects a tool is called with
ToolArgs(name) ==
  CASE name = "get_states" ->
         {EmptyObj, [entity_id |-> "light.a"], [domain |-> "light"], [summarize |-> "true"]}
    [] name = "search_entities" -> {EmptyObj, [query |-> "bedroom"]}
    [] name = "get_entity_details" ->
         {EmptyObj, [entity_id |-> "light.a"], [entity_id |-> "light.zz"]}
    [] name = "diagnose_entity" -> {[entity_id |-> "light.a"]}
    [] name = "call_service" ->
         {EmptyObj} \cup
         { [domain |-> "light", service |-> "turn_on"] } \cup
         { [domain |-> "light", service |-> "turn_on", target |-> Target1] } \cup
         { [domain |-> "light", service |-> "turn_on", data |-> d] : d \in {Data1, Data2} } \cup
         { [domain |-> "light", service |-> "turn_on", target |-> Target1, data |-> d] :
             d \in {Data1, Data2} }
    [] name \in {"get_services", "detect_anomalies"} -> {EmptyObj, [domain |-> "light"]}
    [] name = "get_history" ->
         {[entity_id |-> "light.a"], [entity_id |-> "light.a", start_time |-> "2024-01-01"]}
    [] name = "get_logbook" -> {EmptyObj, [entity_id |-> "light.a"]}
    [] name = "get_devices" -> {EmptyObj, [area_id |-> "kitchen"]}
    [] name = "get_error_log" -> {EmptyObj, [lines |-> "50"]}
    [] name = "fire_event" ->
         {[event_type |-> "my_event"], [event_type |-> "my_event", event_data |-> [x |-> "1"]]}
    [] name = "render_template" -> {EmptyObj, [template |-> "{{ 1 }}"]}
    [] name = "get_calendar_events" ->
         {[calendar_entity |-> "calendar.a"],
          [calendar_entity |-> "calendar.a", start |-> "2024-01-01", end |-> "2024-01-02"]}
    [] name = "get_integration_docs" ->
         {[integration |-> "mqtt"]}
    [] name = "get_breaking_changes" ->
         {EmptyObj, [integration |-> "light", version |-> "2023.3"],
          [integration |-> "template"], [integration |-> "zwave"], [version |-> "2023.12"],
          [integration |-> "mqtt", version |-> "2023.8"],
          [integration |-> "", version |-> "2024.1"]}
    [] name = "check_config_syntax" ->
         {EmptyObj} \cup {[yaml_config |-> y] : y \in Yamls}
         \cup {[yaml_config |-> y, integration |-> "mqtt"] : y \in Yamls}
    [] OTHER -> {EmptyObj}

RequestedTools == ToolNames \cup {"reboot_host"}

RequestedUris ==
  SeqToSet(RESOURCES) \cup
  { Uri2("states", "light"), Uri2("states", "my-domain"), Uri2("entity", "light.a"),
    Uri2("entity", ""), Uri2("entity", "light.zz"), Uri2("area", "kitchen"), Uri2("history", "light.a"),
    Uri("secrets"), <<"ha:", "states", "light", "x">> }

PromptArgs(name) ==
  CASE name = "troubleshoot_entity" ->
         {EmptyObj, [entity_id |-> ""], [entity_id |-> "light.a"],
          [entity_id |-> "light.a", problem_description |-> "flickers"],
          [problem_description |-> "flickers"]}
    [] name = "create_automation" -> {EmptyObj, [goal |-> ""], [goal |-> "lights at dusk"]}
    [] name = "scene_builder" -> {EmptyObj, [area |-> "kitchen"], [mood |-> ""]}
    [] name = "morning_routine" -> {EmptyObj, [wake_time |-> "6:30 AM"]}
    [] OTHER -> {EmptyObj}

RequestedPrompts == PromptNames \cup {"reboot_guide"}

RequestedLevels == SeqToSet(LOG_LEVELS) \cup {"verbose"}

\* ------------------------------------------------------------- state machine

NoResp == [kind |-> "none", value |-> EmptyObj, message |-> <<>>]
Result(value) == [kind |-> "result", value |-> value, message |-> <<>>]
Error(message) == [kind |-> "error", value |-> EmptyObj, message |-> message]

Entry(level, action) == <<[level |-> level, logger |-> "mcp-server", action |-> action]>>

WithEntry(log, step) == [step EXCEPT !.log = log \o @]

\* A handler with awaits, from the request to its first await: the handler
\* of call-tool, of read-resource or of get-prompt, with its catch.
StartStep(req, now, li) ==
  CASE req.kind = "call_tool" ->
         WithEntry(Entry("info", "call_tool"),
                   CallToolOutcome(ToolStart(req.name, req.hasArgs, req.args, now, li)))
    [] req.kind = "read_resource" ->
         WithEntry(Entry("debug", "read_resource"),
                   ReadResourceOutcome(req.uri, ResourceStart(req.uri, now)))
    [] OTHER ->
         WithEntry(Entry("info", "get_prompt"),
                   GetPromptOutcome(req.name, PromptStart(req.name, req.args)))

\* The lastIndex fields after that run
StartLastIndex(req, li) ==
  IF req.kind = "call_tool" /\ req.name = "check_config_syntax"
  THEN check_config_syntaxLastIndex(req.hasArgs, req.args, li)
  ELSE li

\* The handler from the reply of its pc-th request to its next await
ResumeStep(req, pc, locals, reply, now) ==
  IF req.kind = "call_tool"
  THEN CallToolOutcome(ToolResume(req.name, req.hasArgs, req.args, pc, locals, reply, now))
  ELSE ReadResourceOutcome(req.uri, ResourceResume(req.uri, pc, locals, reply, now))

\* The request after a run of its handler that ended in step
Settle(req, pc, calls, replies, step) ==
  [ req |-> req,
    status |-> IF step.tag = "await" THEN "awaiting" ELSE "done",
    pc |-> IF step.tag = "await" THEN pc + 1 ELSE pc,
    locals |-> step.locals,
    calls |-> IF step.tag = "await" THEN Append(calls, step.call) ELSE calls,
    replies |-> replies,
    resp |-> CASE step.tag = "await" -> NoResp
               [] step.tag = "return" -> Result(step.result)
               [] OTHER -> Error(step.message) ]

\* sendLog of each record under the level cur
Written(cur, log) ==
  LET Keep(l) == shouldLog(l.level, cur) IN SelectSeq(log, Keep)

\* A handler runs when no response is waiting to be sent; a new request is
\* taken up while fewer than MaxInflight are being handled.  A set-level
\* request is taken up at any time: its handler is the one that writes the
\* state the other handlers read.
Ready == process.status = "running" /\ \A x \in inflight : x.status # "done"
Free == Ready /\ Cardinality(inflight) < MaxInflight

NoTwin == [probed |-> FALSE]
NoScan == [fn |-> "none"]
NoDisk == [none |-> TRUE]

\* The environments the server is started in: SUPERVISOR_TOKEN set, set to
\* the empty text, or unset
Environments ==
  {[SUPERVISOR_TOKEN |-> SUPERVISOR_TOKEN], [SUPERVISOR_TOKEN |-> ""], EmptyObj}

\* if (!SUPERVISOR_TOKEN) { console.error(...); process.exit(1); }
Start(env) ==
  IF ~Truthy(env, "SUPERVISOR_TOKEN")
  THEN [status |-> "exited", code |-> "1", env |-> env]
  ELSE [status |-> "running", code |-> "", env |-> env]

Init ==
  /\ currentLogLevel = "info"
  /\ lastIndex = [p \in PatternIds |-> 0]
  /\ inflight = {}
  /\ stderr = <<>>
  /\ twin = NoTwin
  /\ process \in {Start(env) : env \in Environments}
  /\ scan = NoScan
  /\ disk = NoDisk

\* The handler without the LOG_LEVELS.includes test
SetLevelStepUnchecked(level, cur) ==
  [level |-> level, step |-> Return(EmptyObj, Entry("info", "log_level_changed"))]

\* The SetLevelRequestSchema handler: the new level, the records it logs
\* under the new level, and its answer
SetLevelStep(level, cur) ==
  IF level \in SeqToSet(LOG_LEVELS)
  THEN [level |-> level, step |-> Return(EmptyObj, Entry("info", "log_level_changed"))]
  ELSE [level |-> cur, step |-> Throw(<<"Invalid log level: ", level>>, <<>>)]

SetLevel(level) ==
  /\ Ready
  /\ LET req == Request("set_level", level, <<>>, TRUE, EmptyObj)
         h == SetLevelStep(level, currentLogLevel)
     IN /\ currentLogLevel' = h.level
        /\ inflight' = inflight \cup {Settle(req, 0, <<>>, <<>>, h.step)}
        /\ stderr' = Written(h.level, h.step.log)
  /\ UNCHANGED <<lastIndex, twin, process, scan, disk>>

\* A handler that answers with a constant list
ListHandler(kind, list, log) ==
  /\ Free
  /\ inflight' = inflight \cup
       {Settle(Request(kind, "", <<>>, FALSE, EmptyObj), 0, <<>>, <<>>,
               Return([list |-> list], log))}
  /\ stderr' = Written(currentLogLevel, log)
  /\ UNCHANGED <<currentLogLevel, lastIndex, twin, process, scan, disk>>

ListTools ==
  ListHandler("list_tools", [i \in 1..Len(TOOLS) |-> TOOLS[i].name],
              Entry("debug", "list_tools"))

ListResources == ListHandler("list_resources", RESOURCES, Entry("debug", "list_resources"))

ListResourceTemplates == ListHandler("list_resource_templates", RESOURCE_TEMPLATES, <<>>)

ListPrompts ==
  ListHandler("list_prompts", [i \in 1..Len(PROMPTS) |-> PROMPTS[i].name],
              Entry("debug", "list_prompts"))

\* A handler that turns debug logging on for its request and leaves it on
ReceiveDebug(req, now) ==
  /\ Free
  /\ LET step == StartStep(req, now, lastIndex)
     IN /\ inflight' = inflight \cup {Settle(req, 0, <<>>, <<>>, step)}
        /\ stderr' = Written("debug", step.log)
  /\ lastIndex' = StartLastIndex(req, lastIndex)
  /\ currentLogLevel' = "debug"
  /\ UNCHANGED <<twin, process, scan, disk>>

\* A request is received and its handler runs to its first await
Receive(req, now) ==
  /\ Free
  /\ LET step == StartStep(req, now, lastIndex)
     IN /\ inflight' = inflight \cup {Settle(req, 0, <<>>, <<>>, step)}
        /\ stderr' = Written(currentLogLevel, step.log)
  /\ lastIndex' = StartLastIndex(req, lastIndex)
  /\ UNCHANGED <<currentLogLevel, twin, process, scan, disk>>

\* The CallToolRequestSchema handler
CallTool(name, hasArgs, args, now) ==
  Receive(Request("call_tool", name, <<>>, hasArgs, args), now)

\* The ReadResourceRequestSchema handler
ReadResource(uri, now) ==
  Receive(Request("read_resource", "", uri, FALSE, EmptyObj), now)

\* The GetPromptRequestSchema handler
GetPrompt(name, hasArgs, args) ==
  Receive(Request("get_prompt", name, <<>>, hasArgs, args), NoTime)

\* A handler that requests the same URL again when its request failed
ResumeRetry(x, reply, now) ==
  /\ Ready
  /\ x \in inflight /\ x.status = "awaiting"
  /\ LET step == ResumeStep(x.req, x.pc, x.locals, reply, now)
         again == [x EXCEPT !.calls = Append(@, x.calls[Len(x.calls)]),
                            !.replies = Append(@, reply)]
     IN /\ inflight' = (inflight \ {x})
                       \cup {IF reply.outcome # "ok" /\ Len(x.calls) < 4
                             THEN again
                             ELSE Settle(x.req, x.pc, x.calls, Append(x.replies, reply), step)}
        /\ stderr' = Written(currentLogLevel, step.log)
  /\ UNCHANGED <<currentLogLevel, lastIndex, twin, process, scan, disk>>

\* An upstream reply arrives and the handler awaiting it runs on
Resume(x, reply, now) ==
  /\ Ready
  /\ x \in inflight /\ x.status = "awaiting"
  /\ LET step == ResumeStep(x.req, x.pc, x.locals, reply, now)
     IN /\ inflight' = (inflight \ {x})
                       \cup {Settle(x.req, x.pc, x.calls, Append(x.replies, reply), step)}
        /\ stderr' = Written(currentLogLevel, step.log)
  /\ UNCHANGED <<currentLogLevel, lastIndex, twin, process, scan, disk>>

\* The response has been sent: the request is over
Deliver(x) ==
  /\ x \in inflight /\ x.status = "done"
  /\ inflight' = inflight \ {x}
  /\ stderr' = <<>>
  /\ UNCHANGED <<currentLogLevel, lastIndex, twin, process, scan, disk>>

Next ==
  \/ \E level \in RequestedLevels : SetLevel(level)
  \/ ListTools
  \/ ListResources
  \/ ListResourceTemplates
  \/ ListPrompts
  \/ \E name \in RequestedTools, hasArgs \in BOOLEAN, now \in Times :
       \E args \in (IF hasArgs THEN ToolArgs(name) ELSE {EmptyObj}) :
         CallTool(name, hasArgs, args, now)
  \/ \E uri \in RequestedUris, now \in Times : ReadResource(uri, now)
  \/ \E name \in RequestedPrompts, hasArgs \in BOOLEAN :
       \E args \in (IF hasArgs THEN PromptArgs(name) ELSE {EmptyObj}) :
         GetPrompt(name, hasArgs, args)
  \/ \E x \in {y \in inflight : y.status = "awaiting"}, now \in Times :
       \E reply \in Replies(x.calls[Len(x.calls)]) : Resume(x, reply, now)
  \/ \E x \in inflight : Deliver(x)

Spec == Init /\ [][Next]_vars

\* ------------------------------------------------- two servers side by side
\* Two servers, a and b, each with the state a server keeps from one request
\* to the next (the log level and the lastIndex fields of the pattern
\* expressions).  Each handles requests of its own; then both are given one
\* request, with the same upstream replies and the same clock.

Fresh == [level |-> "info", lastIndex |-> [p \in PatternIds |-> 0], handled |-> FALSE]

NoAnswer == [resp |-> NoResp, calls |-> <<>>]

\* The handler of req run on from step, the i-th outbound request answered
\* by replies[i] and the clock reading now: the response and the requests
\* issued.
RECURSIVE RunOn(_, _, _, _, _, _)
RunOn(req, step, pc, calls, replies, now) ==
  IF step.tag = "await" /\ pc < Len(replies)
  THEN RunOn(req, ResumeStep(req, pc + 1, step.locals, replies[pc + 1], now), pc + 1,
             Append(calls, step.call), replies, now)
  ELSE LET x == Settle(req, pc, calls, replies, step) IN [resp |-> x.resp, calls |-> x.calls]

Answer(server, req, replies, now) ==
  RunOn(req, StartStep(req, now, server.lastIndex), 0, <<>>, replies, now)

\* The server after handling req
After(server, req) == [server EXCEPT !.lastIndex = StartLastIndex(req, @)]

AllReplies == Replies(GET(<<"config">>))

\* The replies to the requests a handler issues, in their order
ReplySeqs == {<<r1, r2, r3>> : r1 \in AllReplies, r2 \in AllReplies, r3 \in AllReplies}

\* The tool calls, resource reads and prompt requests
Requests ==
  UNION { { Request("call_tool", name, <<>>, TRUE, args) : args \in ToolArgs(name) }
          \cup { Request("call_tool", name, <<>>, FALSE, EmptyObj) } : name \in RequestedTools }
  \cup { Request("read_resource", "", uri, FALSE, EmptyObj) : uri \in RequestedUris }
  \cup UNION { { Request("get_prompt", name, <<>>, TRUE, args) : args \in PromptArgs(name) }
               \cup { Request("get_prompt", name, <<>>, FALSE, EmptyObj) } :
               name \in RequestedPrompts }

Servers == {"a", "b"}

\* The levels the two servers are set to: the lowest, the highest, and a
\* value that is no level
TwinLevels == {"debug", "emergency", "verbose"}

TwinInit ==
  /\ currentLogLevel = "info"
  /\ lastIndex = [p \in PatternIds |-> 0]
  /\ inflight = {}
  /\ stderr = <<>>
  /\ twin = [probed |-> FALSE, a |-> Fresh, b |-> Fresh, ra |-> NoAnswer, rb |-> NoAnswer]
  /\ process = Start([SUPERVISOR_TOKEN |-> SUPERVISOR_TOKEN])
  /\ scan = NoScan
  /\ disk = NoDisk

\* Server s handles a set-level request
TwinSetLevel(s, level) ==
  /\ ~twin.probed
  /\ twin' = [twin EXCEPT ![s].level = SetLevelStep(level, @).level]
  /\ UNCHANGED <<currentLogLevel, lastIndex, inflight, stderr, process, scan, disk>>

\* Server s handles a tool call, a resource read or a prompt request
TwinHandle(s, req) ==
  /\ ~twin.probed
  /\ twin' = [twin EXCEPT ![s] = [After(@, req) EXCEPT !.handled = TRUE]]
  /\ UNCHANGED <<currentLogLevel, lastIndex, inflight, stderr, process, scan, disk>>

\* Both servers are given the same request, replies and clock
Probe(req, replies, now) ==
  /\ ~twin.probed
  /\ twin' = [probed |-> TRUE,
              a |-> After(twin.a, req), b |-> After(twin.b, req),
              ra |-> Answer(twin.a, req, replies, now),
              rb |-> Answer(twin.b, req, replies, now)]
  /\ UNCHANGED <<currentLogLevel, lastIndex, inflight, stderr, process, scan, disk>>

\* Both servers are started anew
TwinRestart ==
  /\ twin.probed
  /\ twin' = [probed |-> FALSE, a |-> Fresh, b |-> Fresh, ra |-> NoAnswer, rb |-> NoAnswer]
  /\ UNCHANGED <<currentLogLevel, lastIndex, inflight, stderr, process, scan, disk>>

TwinNext ==
  \/ \E s \in Servers, level \in TwinLevels : TwinSetLevel(s, level)
  \/ \E s \in Servers, req \in Requests : TwinHandle(s, req)
  \/ \E req \in Requests, replies \in ReplySeqs, now \in Times : Probe(req, replies, now)
  \/ TwinRestart

TwinSpec == TwinInit /\ [][TwinNext]_vars

\* ------------------------------------------------------- scans of the states
\* The functions that scan the list of states GET /states answers with.
\* Here a text is the sequence of its pieces (an entity id is
\* <<"light", ".", "kitchen">>), and a text includes, or starts with,
\* another by its pieces.  A state is the object Home Assistant describes an
\* entity with: entity_id, state, attributes and last_changed (the minute of
\* the change).

\* String.prototype.startsWith
StartsWith(text, prefix) ==
  Len(prefix) <= Len(text) /\ SubSeq(text, 1, Len(prefix)) = prefix

\* String.prototype.includes
Includes(text, part) ==
  \E i \in 0..(Len(text) - Len(part)) : SubSeq(text, i + 1, i + Len(part)) = part

\* text.split(sep)[0]
SplitFirst(text, sep) ==
  IF \E i \in 1..Len(text) : text[i] = sep
  THEN SubSeq(text, 1, (CHOOSE i \in 1..Len(text) :
                          text[i] = sep /\ \A j \in 1..(i - 1) : text[j] # sep) - 1)
  ELSE text

\* parseFloat of a text that is one numeral, NaN of any other text
Numerals == -20..130
NaN == [nan |-> TRUE, n |-> 0]
parseFloat(text) ==
  IF Len(text) = 1 /\ \E n \in Numerals : ToString(n) = text[1]
  THEN [nan |-> FALSE, n |-> CHOOSE n \in Numerals : ToString(n) = text[1]]
  ELSE NaN

\* new Date().getHours() of the clock reading now (minutes, local time)
getHours(now) == (now \div 60) % 24

\* attributes?.k === text
AttrIs(state, k, text) == Has(state.attributes, k) /\ state.attributes[k] = text

NoAnomaly == [null |-> TRUE]

\* The values of a JSON attribute that holds a number: a number, or null.
\* In a comparison null converts to 0; in a template it reads "null"
Num(n) == [num |-> n]
Null == [null |-> TRUE]
ToNumber(v) == IF Has(v, "null") THEN 0 ELSE v.num
ToText(v) == IF Has(v, "null") THEN "null" ELSE ToString(v.num)

Anomaly(state, why, level) ==
  [entity_id |-> state.entity_id, reason |-> why, severity |-> level]

\* // Lights on during day (basic heuristic)
lightOnDuringDay(state, now) ==
  IF SplitFirst(state.entity_id, ".") = <<"light">> /\ state.state = <<"on">>
     /\ getHours(now) >= 10 /\ getHours(now) <= 16
  THEN Anomaly(state, <<"Light on during daytime">>, "info")
  ELSE NoAnomaly

\* hoursOpen.toFixed(1) for a time given in minutes: the hours rounded to a
\* tenth
toFixed1(minutes) ==
  LET tenths == (2 * minutes + 6) \div 12
  IN ToString(tenths \div 10) \o "." \o ToString(tenths % 10)

\* // Door/window sensors open for extended period.  hoursOpen > 4 in
\* minutes; a last_changed that is missing makes hoursOpen NaN.
openTooLong(state, now) ==
  IF /\ SplitFirst(state.entity_id, ".") = <<"binary_sensor">>
     /\ (AttrIs(state, "device_class", <<"door">>) \/ AttrIs(state, "device_class", <<"window">>))
     /\ state.state = <<"on">>
     /\ Has(state, "last_changed") /\ now - state.last_changed > 240
  THEN Anomaly(state, <<"Open for ", toFixed1(now - state.last_changed), " hours">>, "info")
  ELSE NoAnomaly

\* // Humidity out of range
unusualHumidity(state) ==
  LET humidity == parseFloat(state.state) IN
  IF /\ SplitFirst(state.entity_id, ".") = <<"sensor">>
     /\ AttrIs(state, "device_class", <<"humidity">>)
     /\ ~humidity.nan /\ (humidity.n < 10 \/ humidity.n > 95)
  THEN Anomaly(state, <<"Unusual humidity: ">> \o state.state \o <<"%">>, "warning")
  ELSE NoAnomaly

\* // Temperature sensors out of normal range
unusualTemperature(state) ==
  LET temp == parseFloat(state.state)
      unit == IF Has(state.attributes, "unit_of_measurement")
                 /\ state.attributes.unit_of_measurement # <<>>
              THEN state.attributes.unit_of_measurement ELSE <<"°", "C">>
      isCelsius == Includes(unit, <<"C">>)
      normalMin == IF isCelsius THEN -10 ELSE 14
      normalMax == IF isCelsius THEN 50 ELSE 122
  IN IF /\ SplitFirst(state.entity_id, ".") = <<"sensor">>
        /\ AttrIs(state, "device_class", <<"temperature">>)
        /\ ~temp.nan /\ (temp.n < normalMin \/ temp.n > normalMax)
     THEN Anomaly(state, <<"Unusual temperature: ">> \o state.state \o unit, "warning")
     ELSE NoAnomaly

\* // Battery low
lowBattery(state) ==
  IF Has(state.attributes, "battery_level") /\ ToNumber(state.attributes.battery_level) < 20
  THEN Anomaly(state, <<"Low battery (", ToText(state.attributes.battery_level), "%)">>,
               "warning")
  ELSE NoAnomaly

\* detectAnomaly: the first test that reports, in the order of the code
detectAnomaly(state, now) ==
  IF lowBattery(state) # NoAnomaly THEN lowBattery(state)
  ELSE IF unusualTemperature(state) # NoAnomaly THEN unusualTemperature(state)
  ELSE IF unusualHumidity(state) # NoAnomaly THEN unusualHumidity(state)
  ELSE IF openTooLong(state, now) # NoAnomaly THEN openTooLong(state, now)
  ELSE lightOnDuringDay(state, now)

\* args?.k is truthy: the field is present and not the empty text
Given(args, k) == Has(args, k) /\ args[k] # <<>>

\* The filter taking every id the domain's name starts
inDomainPrefix(state, domain) == StartsWith(state.entity_id, domain)

\* (s) => s.entity_id.startsWith(`${domain}.`)
inDomain(state, domain) == StartsWith(state.entity_id, domain \o <<".">>)

\* states.filter(...) when a domain is given, else the list as it is
filterByDomain(states, args) ==
  LET Keep(s) == inDomain(s, args.domain)
  IN IF Given(args, "domain") THEN SelectSeq(states, Keep) ELSE states

\* .map(s => ({ entity_id, state, friendly_name, device_class }))
simplified(states) ==
  [i \in 1..Len(states) |->
     [entity_id |-> states[i].entity_id, state |-> states[i].state,
      friendly_name |-> IF Has(states[i].attributes, "friendly_name")
                        THEN states[i].attributes.friendly_name ELSE <<"undefined">>,
      device_class |-> IF Has(states[i].attributes, "device_class")
                       THEN states[i].attributes.device_class ELSE <<"undefined">>]]

\* case "get_states" on the states of GET /states, without entity_id and
\* without summarize: the states scanned and the list answered with
get_statesScan(states, args) ==
  [scanned |-> filterByDomain(states, args), result |-> simplified(filterByDomain(states, args))]

\* ha://states/{domain}
statesResourceScan(states, domain) ==
  LET Keep(s) == inDomain(s, domain)
  IN [scanned |-> SelectSeq(states, Keep), result |-> simplified(SelectSeq(states, Keep))]

\* states.map(detectAnomaly).filter(Boolean)
anomaliesOf(states, now) ==
  LET found == [i \in 1..Len(states) |-> detectAnomaly(states[i], now)]
      Reported(a) == a # NoAnomaly
  IN SelectSeq(found, Reported)

\* The anomalies left in the order they were found
asFound(anomalies) == anomalies

\* .sort(...): the warnings first, each group in its order (the sort is stable)
warningsFirst(anomalies) ==
  LET IsWarning(a) == a.severity = "warning"
      IsOther(a) == a.severity # "warning"
  IN SelectSeq(anomalies, IsWarning) \o SelectSeq(anomalies, IsOther)

\* case "detect_anomalies" on the states of GET /states
detect_anomaliesScan(states, args, now) ==
  [scanned |-> filterByDomain(states, args),
   result |-> warningsFirst(anomaliesOf(filterByDomain(states, args), now))]

\* ha://anomalies
anomaliesResourceScan(states, now) ==
  [scanned |-> states, result |-> anomaliesOf(states, now)]

\* ------------------------------------------------------------ searchEntities
\* In the search a text is the sequence of its characters.

Chars_light == <<"l", "i", "g", "h", "t">>
Chars_bed == <<"b", "e", "d">>
Chars_kit == <<"k", "i", "t">>
Chars_fan == <<"f", "a", "n">>
Chars_on == <<"o", "n">>
Chars_off == <<"o", "f", "f">>
Chars_Bed_Light == <<"B", "e", "d", " ", "L", "i", "g", "h", "t">>
Chars_Kit == <<"K", "i", "t">>

\* String.prototype.toLowerCase, on the letters the texts are made of
LowerOf(c) ==
  CASE c = "B" -> "b"
    [] c = "K" -> "k"
    [] c = "L" -> "l"
    [] OTHER -> c

toLowerCase(text) == [i \in 1..Len(text) |-> LowerOf(text[i])]

\* \s
IsSpace(c) == c \in {" ", "\t", "\n"}

\* The first index from i on that holds no white space
RECURSIVE SkipSpaces(_, _)
SkipSpaces(text, i) ==
  IF i <= Len(text) /\ IsSpace(text[i]) THEN SkipSpaces(text, i + 1) ELSE i

\* text.split(/\s+/) from index i on, cur being the piece read so far: a run
\* of white space ends a piece, so white space at an end of the text, and the
\* empty text, give an empty piece
RECURSIVE SplitFrom(_, _, _)
SplitFrom(text, i, cur) ==
  IF i > Len(text) THEN <<cur>>
  ELSE IF IsSpace(text[i]) THEN <<cur>> \o SplitFrom(text, SkipSpaces(text, i), <<>>)
  ELSE SplitFrom(text, i + 1, Append(cur, text[i]))

split(text) == SplitFrom(text, 1, <<>>)

\* state.attributes?.k || ""
AttrOrEmpty(state, k) == IF Has(state.attributes, k) THEN state.attributes[k] ELSE <<>>

\* state.attributes?.k in a result: the text, or undefined
AttrOrUndefined(state, k) ==
  IF Has(state.attributes, k) THEN [text |-> state.attributes[k]] ELSE [undefined |-> TRUE]

\* [entity_id, friendly_name || "", device_class || "", state].join(" ").toLowerCase()
searchText(state) ==
  toLowerCase(state.entity_id \o <<" ">> \o AttrOrEmpty(state, "friendly_name") \o <<" ">>
              \o AttrOrEmpty(state, "device_class") \o <<" ">> \o state.state)

\* The body of for (const term of terms): what one term adds to the score
termScore(state, term) ==
  IF Includes(searchText(state), term)
  THEN 1 + (IF Includes(toLowerCase(AttrOrEmpty(state, "friendly_name")), term) THEN 2 ELSE 0)
         + (IF Includes(state.entity_id, term) THEN 1 ELSE 0)
  ELSE 0

RECURSIVE scoreOver(_, _, _)
scoreOver(state, terms, i) ==
  IF i > Len(terms) THEN 0 ELSE termScore(state, terms[i]) + scoreOver(state, terms, i + 1)

\* The results left in the order of the states
keepOrder(results, k) == results

\* .sort((a, b) => b.score - a.score): the greater score first, equal scores
\* in their order; k is the greatest score there can be
RECURSIVE sortByScore(_, _)
sortByScore(results, k) ==
  LET Scored(r) == r.score = k
  IN IF k < 0 THEN <<>> ELSE SelectSeq(results, Scored) \o sortByScore(results, k - 1)

\* .slice(0, n)
slice(list, n) == SubSeq(list, 1, IF Len(list) < n THEN Len(list) ELSE n)

searchEntities(states, query) ==
  LET terms == split(toLowerCase(query))
      results == [i \in 1..Len(states) |->
                    [state |-> states[i], score |-> scoreOver(states[i], terms, 1)]]
      Positive(r) == r.score > 0
      first == slice(sortByScore(SelectSeq(results, Positive), 4 * Len(terms)), 20)
  IN [i \in 1..Len(first) |->
        [entity_id |-> first[i].state.entity_id,
         state |-> first[i].state.state,
         friendly_name |-> AttrOrUndefined(first[i].state, "friendly_name"),
         device_class |-> AttrOrUndefined(first[i].state, "device_class"),
         score |-> first[i].score]]

\* case "search_entities": the results, or the text that says there are none
search_entitiesScan(states, args) ==
  LET results == searchEntities(states, args.query)
  IN [scanned |-> states,
      result |-> IF Len(results) > 0 THEN results
                 ELSE <<[text |-> <<"No entities found matching \"">> \o args.query \o <<"\"">>]>>]

\* ---------------------------------------------------- getEntityRelationships

\* states.find(s => s.entity_id === entityId): the index of the first, or 0
find(states, entityId) ==
  IF \E i \in 1..Len(states) : states[i].entity_id = entityId
  THEN CHOOSE i \in 1..Len(states) :
         /\ states[i].entity_id = entityId
         /\ \A j \in 1..(i - 1) : states[j].entity_id # entityId
  ELSE 0

\* a value that is neither undefined nor the empty text
Defined(v) == Has(v, "text") /\ v.text # <<>>

\* The test of the filter without its first line
isRelatedOrSelf(s, entityId, deviceId, areaId) ==
  \/ Defined(deviceId) /\ AttrOrUndefined(s, "device_id") = deviceId
  \/ Defined(areaId) /\ AttrOrUndefined(s, "area_id") = areaId

\* The test of states.filter(...) in getEntityRelationships
isRelated(s, entityId, deviceId, areaId) ==
  IF s.entity_id = entityId THEN FALSE
  ELSE IF Defined(deviceId) /\ AttrOrUndefined(s, "device_id") = deviceId THEN TRUE
  ELSE IF Defined(areaId) /\ AttrOrUndefined(s, "area_id") = areaId THEN TRUE
  ELSE FALSE

\* getEntityRelationships on the states GET /states answered with
getEntityRelationships(states, entityId) ==
  LET at == find(states, entityId)
      entity == states[at]
      deviceId == AttrOrUndefined(entity, "device_id")
      areaId == AttrOrUndefined(entity, "area_id")
      Keep(s) == isRelated(s, entityId, deviceId, areaId)
      kept == SelectSeq(states, Keep)
      related == [i \in 1..Len(kept) |->
                    [entity_id |-> kept[i].entity_id,
                     friendly_name |-> AttrOrUndefined(kept[i], "friendly_name"),
                     state |-> kept[i].state,
                     relationship |-> IF AttrOrUndefined(kept[i], "device_id") = deviceId
                                      THEN "same_device" ELSE "same_area"]]
  IN IF at = 0 THEN [error |-> "Entity not found"]
     ELSE [entity_id |-> entityId,
           friendly_name |-> AttrOrUndefined(entity, "friendly_name"),
           state |-> entity.state,
           domain |-> SplitFirst(entityId, "."),
           device_class |-> AttrOrUndefined(entity, "device_class"),
           device_id |-> deviceId,
           area_id |-> areaId,
           attributes |-> entity.attributes,
           related_entities |-> slice(related, 10)]

\* case "get_entity_details" and ha://entity/{entity_id}
get_entity_detailsScan(states, args) ==
  [scanned |-> states, result |-> <<getEntityRelationships(states, args.entity_id)>>]

\* -------------------------------------------------------- generateSuggestions

\* s.attributes?.device_class === class
deviceClassIs(s, class) == AttrOrUndefined(s, "device_class") = [text |-> class]

\* friendly_name || entity_id
nameOf(s) ==
  IF AttrOrEmpty(s, "friendly_name") # <<>> THEN s.attributes.friendly_name ELSE s.entity_id

\* list.map(nameOf).join(", ")
RECURSIVE joinNames(_, _)
joinNames(list, i) ==
  IF i > Len(list) THEN <<>>
  ELSE nameOf(list[i]) \o (IF i < Len(list) THEN <<", ">> ELSE <<>>) \o joinNames(list, i + 1)

entityIds(list) == [i \in 1..Len(list) |-> list[i].entity_id]

\* The lights of every area
lightsAnywhere(states, motion) ==
  LET IsLight(l) == StartsWith(l.entity_id, <<"light", ".">>)
  IN SelectSeq(states, IsLight)

\* The lights of the area of one motion sensor
areaLightsOf(states, motion) ==
  LET IsAreaLight(l) == /\ StartsWith(l.entity_id, <<"light", ".">>)
                        /\ AttrOrUndefined(l, "area_id") = AttrOrUndefined(motion, "area_id")
  IN SelectSeq(states, IsAreaLight)

\* The body of for (const motion of motionSensors): the suggestions pushed
motionLight(states, motion) ==
  IF AttrOrEmpty(motion, "area_id") # <<>> /\ Len(areaLightsOf(states, motion)) > 0
  THEN <<[type |-> "motion_light",
          title |-> "Motion-Activated Lighting",
          description |-> <<"Create automation: When ">> \o nameOf(motion)
                          \o <<" detects motion, turn on ">>
                          \o joinNames(areaLightsOf(states, motion), 1),
          trigger_entity |-> motion.entity_id,
          action_entities |-> entityIds(areaLightsOf(states, motion))]>>
  ELSE <<>>

RECURSIVE motionLights(_, _, _)
motionLights(states, motionSensors, i) ==
  IF i > Len(motionSensors) THEN <<>>
  ELSE motionLight(states, motionSensors[i]) \o motionLights(states, motionSensors, i + 1)

generateSuggestions(states) ==
  LET IsMotion(s) == deviceClassIs(s, <<"motion">>) \/ Includes(s.entity_id, <<"motion">>)
      IsOpening(s) == deviceClassIs(s, <<"door">>) \/ deviceClassIs(s, <<"window">>)
      IsThermostat(s) == StartsWith(s.entity_id, <<"climate", ".">>)
      IsTemp(s) == deviceClassIs(s, <<"temperature">>)
      IsPower(s) == deviceClassIs(s, <<"power">>) \/ deviceClassIs(s, <<"energy">>)
      openings == SelectSeq(states, IsOpening)
      thermostats == SelectSeq(states, IsThermostat)
      tempSensors == SelectSeq(states, IsTemp)
      powerSensors == SelectSeq(states, IsPower)
  IN motionLights(states, SelectSeq(states, IsMotion), 1)
     \o (IF Len(openings) > 0
         THEN <<[type |-> "security_alert",
                 title |-> "Security Alert Automation",
                 description |-> "Create notification when doors/windows are left open for extended periods",
                 entities |-> slice(entityIds(openings), 5)]>>
         ELSE <<>>)
     \o (IF Len(thermostats) > 0 /\ Len(tempSensors) > 0
         THEN <<[type |-> "climate_optimization",
                 title |-> "Climate Optimization",
                 description |-> "Create automations to adjust thermostat based on occupancy or outdoor temperature",
                 climate_entities |-> entityIds(thermostats),
                 sensor_entities |-> slice(entityIds(tempSensors), 3)]>>
         ELSE <<>>)
     \o (IF Len(powerSensors) > 0
         THEN <<[type |-> "energy_monitoring",
                 title |-> "Energy Usage Alerts",
                 description |-> "Create alerts for unusual energy consumption patterns",
                 entities |-> slice(entityIds(powerSensors), 5)]>>
         ELSE <<>>)

\* case "get_suggestions" and ha://suggestions
get_suggestionsScan(states) == [scanned |-> states, result |-> generateSuggestions(states)]

\* ------------------------------------------- the scans applied to their inputs

MaxStates == 2       \* states in the list GET /states answers with

EntityId(domain, name) == domain \o <<".", name>>

\* The objects the attributes of a state are made of
Optional(k, values) == {EmptyObj} \cup {[x \in {k} |-> v] : v \in values}
Merge(a, b) == [k \in DOMAIN a \cup DOMAIN b |-> IF k \in DOMAIN a THEN a[k] ELSE b[k]]

\* The states detectAnomaly is applied to: the values at each bound of a
\* test and on both sides of it
ScannedDomains == {<<"sensor">>, <<"binary_sensor">>, <<"light">>, <<"climate">>}
ScannedValues ==
  { <<"on">>, <<"off">>, <<"unavailable">>, <<"unknown">> } \cup
  { <<ToString(n)>> : n \in {-11, -10, 9, 10, 13, 14, 50, 51, 95, 96, 122, 123} }
ScannedAttributes ==
  { Merge(Merge(b, c), u) :
      b \in Optional("battery_level", {Num(19), Num(20), Null}),
      c \in Optional("device_class", {<<"temperature">>, <<"humidity">>, <<"door">>,
                                     <<"window">>, <<"motion">>}),
      u \in Optional("unit_of_measurement", {<<"°", "C">>, <<"°", "F">>}) }

\* The minutes since the change of a state, around 4 hours
Ages == {239, 240, 241}

\* The clock readings, in minutes of local time: around 10 AM, around 4 PM
\* and around 5 PM
Clock == {599, 600, 960, 961, 990, 1019, 1020}

\* The states in the lists the tools scan
ListedStates ==
  { [entity_id |-> EntityId(<<"light">>, "a"), state |-> <<"off">>, attributes |-> EmptyObj],
    [entity_id |-> EntityId(<<"light", "_group">>, "a"), state |-> <<"off">>,
     attributes |-> EmptyObj],
    [entity_id |-> EntityId(<<"sensor">>, "t"), state |-> <<"unavailable">>,
     attributes |-> [device_class |-> <<"temperature">>]],
    [entity_id |-> EntityId(<<"sensor">>, "h"), state |-> <<"96">>,
     attributes |-> [device_class |-> <<"humidity">>]],
    [entity_id |-> EntityId(<<"switch">>, "s"), state |-> <<"unknown">>,
     attributes |-> [battery_level |-> Num(19)]],
    [entity_id |-> EntityId(<<"light">>, "b"), state |-> <<"on">>, attributes |-> EmptyObj],
    [entity_id |-> EntityId(<<"sensor">>, "hb"), state |-> <<"9">>,
     attributes |-> [device_class |-> <<"humidity">>, battery_level |-> Num(19)]] }

RECURSIVE SeqsUpTo(_, _)
SeqsUpTo(S, n) ==
  IF n = 0 THEN {<<>>}
  ELSE SeqsUpTo(S, n - 1) \cup {Append(q, x) : q \in SeqsUpTo(S, n - 1), x \in S}

StateLists == SeqsUpTo(ListedStates, MaxStates)

DomainArgs ==
  {EmptyObj, [domain |-> <<>>]}
  \cup {[domain |-> d] : d \in {<<"light">>, <<"light", "_group">>, <<"sensor">>, <<"cover">>}}

\* The decimal digits of a number below 100, as characters
Digits(i) == IF i < 10 THEN <<ToString(i)>> ELSE <<ToString(i \div 10), ToString(i % 10)>>

MaxRun == 11         \* entities of one kind in a row, in the lists that are cut

\* The i-th entity of each kind the search is made over
SearchKinds == <<"fan_g", "light_kit", "light_bed", "fan_f">>
SearchEntity(kind, i) ==
  CASE kind = "light_bed" ->
         [entity_id |-> Chars_light \o <<".">> \o Chars_bed \o Digits(i), state |-> Chars_on,
          attributes |-> [friendly_name |-> Chars_Bed_Light]]
    [] kind = "light_kit" ->
         [entity_id |-> Chars_light \o <<".">> \o Chars_kit \o Digits(i), state |-> Chars_off,
          attributes |-> EmptyObj]
    [] kind = "fan_f" ->
         [entity_id |-> Chars_fan \o <<".", "f">> \o Digits(i), state |-> Chars_on,
          attributes |-> [friendly_name |-> Chars_Kit]]
    [] kind = "fan_g" ->
         [entity_id |-> Chars_fan \o <<".", "g">> \o Digits(i), state |-> Chars_off,
          attributes |-> EmptyObj]

\* The lists made of runs: the kinds in the order given, from the r-th on and
\* around, count[k] entities of kind k in a row
RECURSIVE Runs(_, _, _, _, _)
Runs(Entity(_, _), kinds, count, r, j) ==
  IF j > Len(kinds) THEN <<>>
  ELSE LET k == kinds[((r + j - 2) % Len(kinds)) + 1]
       IN [i \in 1..count[k] |-> Entity(k, i)] \o Runs(Entity, kinds, count, r, j + 1)

RunCounts(kinds) == [SeqToSet(kinds) -> {0, 1, MaxRun}]

Queries ==
  { <<>>, <<" ">>, Chars_bed, Chars_kit, <<" ">> \o Chars_kit, Chars_on, <<"z">>,
    Chars_Bed_Light, Chars_fan \o <<" ", " ">> \o Chars_off }

\* The entity asked about, with each set of identifiers it can have
AskedId == <<"sensor", ".", "e">>
Identified ==
  { Merge(d, a) : d \in Optional("device_id", {<<"d1">>}),
                  a \in Optional("area_id", {<<"a1">>, <<>>}) }
Asked(attributes) == [entity_id |-> AskedId, state |-> <<"on">>, attributes |-> attributes]

\* The entities beside it: of its device, of its area, of both, of another
\* device and area, without identifiers, with an empty area
RelatedKinds == <<"device", "area", "both", "other", "none", "empty">>
RelatedEntity(kind, i) ==
  [entity_id |-> <<"switch", ".", kind, ToString(i)>>,
   state |-> <<"off">>,
   attributes |->
     CASE kind = "device" -> [device_id |-> <<"d1">>]
       [] kind = "area" -> [area_id |-> <<"a1">>]
       [] kind = "both" -> [device_id |-> <<"d1">>, area_id |-> <<"a1">>]
       [] kind = "other" -> [device_id |-> <<"d2">>, area_id |-> <<"a2">>]
       [] kind = "none" -> EmptyObj
       [] kind = "empty" -> [area_id |-> <<>>]]

\* The states the suggestions are made from
SuggestionStates ==
  { [entity_id |-> EntityId(<<"binary_sensor">>, "hall"), state |-> <<"off">>,
     attributes |-> [device_class |-> <<"motion">>, area_id |-> <<"a1">>]],
    [entity_id |-> <<"binary_sensor", ".", "porch", "_", "motion">>, state |-> <<"off">>,
     attributes |-> [area_id |-> <<"a2">>, friendly_name |-> <<"Porch">>]],
    [entity_id |-> EntityId(<<"binary_sensor">>, "attic"), state |-> <<"off">>,
     attributes |-> [device_class |-> <<"motion">>]],
    [entity_id |-> EntityId(<<"light">>, "hall"), state |-> <<"off">>,
     attributes |-> [area_id |-> <<"a1">>]],
    [entity_id |-> EntityId(<<"light">>, "hall2"), state |-> <<"on">>,
     attributes |-> [area_id |-> <<"a1">>, friendly_name |-> <<"Hall 2">>]],
    [entity_id |-> EntityId(<<"light">>, "porch"), state |-> <<"off">>,
     attributes |-> [area_id |-> <<"a2">>]],
    [entity_id |-> EntityId(<<"light">>, "loose"), state |-> <<"off">>, attributes |-> EmptyObj],
    [entity_id |-> EntityId(<<"switch">>, "hall"), state |-> <<"off">>,
     attributes |-> [area_id |-> <<"a1">>]],
    [entity_id |-> EntityId(<<"binary_sensor">>, "door"), state |-> <<"off">>,
     attributes |-> [device_class |-> <<"door">>]],
    [entity_id |-> EntityId(<<"climate">>, "living"), state |-> <<"heat">>,
     attributes |-> EmptyObj],
    [entity_id |-> EntityId(<<"sensor">>, "t"), state |-> <<"21">>,
     attributes |-> [device_class |-> <<"temperature">>]],
    [entity_id |-> EntityId(<<"sensor">>, "p"), state |-> <<"100">>,
     attributes |-> [device_class |-> <<"power">>]] }

\* More entities of one class than a suggestion lists
ManyKinds == <<"window", "temperature", "energy">>
ManyEntity(kind, i) ==
  [entity_id |-> <<"sensor", ".", kind, ToString(i)>>, state |-> <<"off">>,
   attributes |-> [device_class |-> <<kind>>]]

\* The lines the YAML texts that are checked are made of
CheckedLines ==
  { Line(0, FALSE, "sensor", ""), Line(2, TRUE, "platform", "template"),
    Line(2, TRUE, "platform", "time_date"), Line(2, FALSE, "platform", "time_date"),
    Line(4, FALSE, "entity_namespace", "x"), Line(4, FALSE, "white_value", "1"),
    Line(4, TRUE, "white_value", "1"),
    Line(0, FALSE, "automation", ""), Line(2, TRUE, "alias", "x"),
    [Line(2, TRUE, "alias", "x") EXCEPT !.tab = TRUE] }

MaxLines == 3        \* lines of a YAML text that is checked

\* "": no integration argument
CheckedIntegrations == {"", "template", "time_date", "sensor", "light"}

MaxSuggested == 3    \* states, beside the runs, in the lists suggestions are made from

\* A scan waiting to be made: the function, the states of GET /states, the
\* arguments and the clock reading
Pending(call, states, args, now) ==
  [fn |-> "pending", call |-> call, states |-> states, args |-> args, now |-> now]

SingleStates ==
  { [entity_id |-> EntityId(d, "x"), state |-> v, attributes |-> a] :
      d \in ScannedDomains, v \in ScannedValues, a \in ScannedAttributes }

\* The moment of the last change: absent, or a number of minutes before now
Changed(state, now) ==
  {state} \cup {Merge(state, [last_changed |-> now - age]) : age \in Ages}

ScanInit ==
  /\ currentLogLevel = "info"
  /\ lastIndex = [p \in PatternIds |-> 0]
  /\ inflight = {}
  /\ stderr = <<>>
  /\ twin = NoTwin
  /\ process = Start([SUPERVISOR_TOKEN |-> SUPERVISOR_TOKEN])
  /\ disk = NoDisk
  /\ \/ \E e \in SingleStates, now \in Clock : \E c \in Changed(e, now) :
          scan = Pending("detectAnomaly", <<c>>, EmptyObj, now)
     \/ \E l \in StateLists, a \in DomainArgs :
          \/ scan = Pending("detect_anomalies", l, a, 600)
          \/ scan = Pending("get_states", l, a, 0)
          \/ Given(a, "domain") /\ scan = Pending("ha://states/{domain}", l, a, 0)
     \/ \E l \in StateLists : scan = Pending("ha://anomalies", l, EmptyObj, 600)
     \/ \E count \in RunCounts(SearchKinds), r \in 1..Len(SearchKinds), q \in Queries :
          scan = Pending("search_entities", Runs(SearchEntity, SearchKinds, count, r, 1),
                         [query |-> q], 0)
     \/ \E first \in 0..1, a \in Identified, k1, k2 \in SeqToSet(RelatedKinds),
           n1, n2 \in {1, MaxRun}, id \in {AskedId, <<"sensor", ".", "gone">>} :
          scan = Pending("get_entity_details",
                         [i \in 1..n1 |-> RelatedEntity(k1, i)]
                         \o [i \in 1..first |-> Asked(a)]
                         \o [i \in 1..n2 |-> RelatedEntity(k2, n1 + i)]
                         \o [i \in 1..(1 - first) |-> Asked(a)],
                         [entity_id |-> id], 0)
     \/ \E l \in SeqsUpTo(SuggestionStates, MaxSuggested), k \in SeqToSet(ManyKinds),
           n \in {0, MaxRun} :
          /\ \A i, j \in 1..Len(l) : l[i] = l[j] => i = j
          /\ scan = Pending("get_suggestions", l \o [i \in 1..n |-> ManyEntity(k, i)], EmptyObj, 0)
     \/ \E yaml \in SeqsUpTo(CheckedLines, MaxLines), x \in CheckedIntegrations :
          /\ yaml # <<>>
          /\ scan = Pending("check_config_syntax", <<>>,
                            [yaml_config |-> yaml, integration |-> x], 0)

Waiting(call) == scan.fn = "pending" /\ scan.call = call

Scanned(out) ==
  /\ scan' = [fn |-> scan.call, states |-> scan.states, args |-> scan.args, now |-> scan.now,
              scanned |-> out.scanned, result |-> out.result]
  /\ UNCHANGED <<currentLogLevel, lastIndex, inflight, stderr, twin, process, disk>>

\* detectAnomaly is applied to one state
DetectAnomaly ==
  /\ Waiting("detectAnomaly")
  /\ Scanned([scanned |-> scan.states,
              result |-> <<detectAnomaly(scan.states[1], scan.now)>>])

DetectAnomalies ==
  /\ Waiting("detect_anomalies")
  /\ Scanned(detect_anomaliesScan(scan.states, scan.args, scan.now))

AnomaliesResource ==
  /\ Waiting("ha://anomalies")
  /\ Scanned(anomaliesResourceScan(scan.states, scan.now))

GetStates ==
  /\ Waiting("get_states")
  /\ Scanned(get_statesScan(scan.states, scan.args))

StatesResource ==
  /\ Waiting("ha://states/{domain}")
  /\ Scanned(statesResourceScan(scan.states, scan.args.domain))

\* case "check_config_syntax" with a text: the result object
CheckConfigSyntax ==
  /\ Waiting("check_config_syntax")
  /\ Scanned([scanned |-> <<>>,
              result |-> <<ConfigSyntaxResult(scan.args.yaml_config, scan.args.integration,
                                              lastIndex)>>])

SearchEntities ==
  /\ Waiting("search_entities")
  /\ Scanned(search_entitiesScan(scan.states, scan.args))

GetEntityDetails ==
  /\ Waiting("get_entity_details")
  /\ Scanned(get_entity_detailsScan(scan.states, scan.args))

GetSuggestions ==
  /\ Waiting("get_suggestions")
  /\ Scanned(get_suggestionsScan(scan.states))

ScanNext ==
  \/ DetectAnomaly
  \/ DetectAnomalies
  \/ AnomaliesResource
  \/ GetStates
  \/ StatesResource
  \/ SearchEntities
  \/ GetEntityDetails
  \/ GetSuggestions
  \/ CheckConfigSyntax

ScanSpec == ScanInit /\ [][ScanNext]_vars

\* ------------------------------------------------------- the startup script
\* The disk: the content of /data/.config/opencode/opencode.json ("absent"
\* when there is no such file), the content of the default file
\* /opt/ha-mcp-server/opencode-ha.json of the installed version, and what is
\* whether the directories under /data exist, the lines the last run logged,
\* and what is remembered to state the claims: the content the user left
\* (kept), the runs of the script since then, and how many of them copied the
\* default.

MaxRuns == 4         \* runs of the startup script between two changes by the user

Defaults == {"default-1", "default-2", "default-3"}
UserConfigs == {"user-a", "user-b", "user-c"}

\* The script copying the default whether or not there is a file
startupAlwaysCopies(d) ==
  [d EXCEPT !.dirs = TRUE, !.config = d.default, !.created = @ + 1,
            !.log = <<"Starting services...", "Created default OpenCode configuration",
                      "Starting OpenCode server on port 4096...">>]

\* mkdir -p; if [ ! -f opencode.json ]; then cp opencode-ha.json opencode.json; fi
startup(d) ==
  IF d.config = "absent"
  THEN [d EXCEPT !.dirs = TRUE, !.config = d.default, !.created = @ + 1,
                 !.log = <<"Starting services...", "Created default OpenCode configuration",
                           "Starting OpenCode server on port 4096...">>]
  ELSE [d EXCEPT !.dirs = TRUE,
                 !.log = <<"Starting services...", "Starting OpenCode server on port 4096...">>]

StartupInit ==
  /\ currentLogLevel = "info"
  /\ lastIndex = [p \in PatternIds |-> 0]
  /\ inflight = {}
  /\ stderr = <<>>
  /\ twin = NoTwin
  /\ process = Start([SUPERVISOR_TOKEN |-> SUPERVISOR_TOKEN])
  /\ scan = NoScan
  /\ \E c \in {"absent"} \cup UserConfigs, v \in Defaults, dirs \in BOOLEAN :
       /\ c # "absent" => dirs
       /\ disk = [dirs |-> dirs, config |-> c, default |-> v, log |-> <<>>,
                  kept |-> c, runs |-> 0, created |-> 0]

OnDisk(d) ==
  /\ disk' = d
  /\ UNCHANGED <<currentLogLevel, lastIndex, inflight, stderr, twin, process, scan>>

\* The add-on starts: the script runs
RunStartup ==
  /\ disk.runs < MaxRuns
  /\ OnDisk([startup(disk) EXCEPT !.runs = @ + 1])

\* The user writes a configuration
UserWrites(c) ==
  /\ disk.dirs
  /\ c # disk.config
  /\ OnDisk([disk EXCEPT !.config = c, !.kept = c, !.runs = 0, !.created = 0])

\* The user removes the configuration
UserRemoves ==
  /\ disk.config # "absent"
  /\ OnDisk([disk EXCEPT !.config = "absent", !.kept = "absent", !.runs = 0, !.created = 0])

\* The add-on is updated to a version with another default file
Update(v) ==
  /\ v # disk.default
  /\ OnDisk([disk EXCEPT !.default = v])

StartupNext ==
  \/ RunStartup
  \/ \E c \in UserConfigs : UserWrites(c)
  \/ UserRemoves
  \/ \E v \in Defaults : Update(v)

StartupSpec == StartupInit /\ [][StartupNext]_vars

\* ------------------------------------------------------------------- claims

ToolCalls == {x \in inflight : x.req.kind = "call_tool"}
Answered == {x \in inflight : x.status = "done"}

InText(part, text) == \E i \in 1..Len(text) : text[i] = part

\* The text of the first content item of a tool response
FirstText(x) == x.resp.value.content[1].text

\* A POST to the Supervisor API under /<head>/
PostUnder(c, head) ==
  c.base = SUPERVISOR_API /\ c.method = "POST" /\ c.endpoint[1] = head

ReadOnlyRequest(req) ==
  \/ req.kind \in {"read_resource", "get_prompt"}
  \/ /\ req.kind = "call_tool"
     /\ \E i \in 1..Len(TOOLS) : TOOLS[i].name = req.name /\ TOOLS[i].readOnly

ReadingCall(c) ==
  \/ c.method = "GET"
  \/ /\ c.base = SUPERVISOR_API /\ c.method = "POST"
     /\ c.endpoint \in {<<"template">>, <<"config", "core", "check_config">>}

\* C1: whatever requests were handled, a POST to /services/... has been
\* issued only by a call of the call_service tool and a POST to /events/...
\* only by a call of the fire_event tool; a tool annotated readOnly, a
\* resource read and a prompt request have issued only GETs and POSTs to
\* /template and /config/core/check_config.
C1_StateChangingOnlyByItsTool ==
  \A x \in inflight : \A i \in 1..Len(x.calls) :
    LET c == x.calls[i] IN
    /\ PostUnder(c, "services") => x.req.kind = "call_tool" /\ x.req.name = "call_service"
    /\ PostUnder(c, "events") => x.req.kind = "call_tool" /\ x.req.name = "fire_event"
    /\ ReadOnlyRequest(x.req) => ReadingCall(c)

\* A call_service call has been answered after its POST to /services/...
C1_Witness ==
  \E x \in ToolCalls :
    /\ x.req.name = "call_service" /\ x.status = "done"
    /\ Len(x.calls) = 1 /\ PostUnder(x.calls[1], "services")

\* C2: a call_service call with domain D and service S issues exactly one
\* request, a POST to /services/D/S whose body holds the fields of the data
\* and of the target, a field of both with the target's value; its answer
\* holds the text 'Service D.S called successfully' only if the reply was a
\* success, and after an error status it has isError = true and no such text.
C2_CallService ==
  \A x \in ToolCalls :
    ( /\ x.req.name = "call_service" /\ x.req.hasArgs
      /\ Has(x.req.args, "domain") /\ Has(x.req.args, "service") ) =>
      LET a == x.req.args
          T == IF Has(a, "target") THEN a.target ELSE EmptyObj
          X == IF Has(a, "data") THEN a.data ELSE EmptyObj
          c == x.calls[1]
          success == <<"Service ", a.domain, ".", a.service, " called successfully.">>
          text == FirstText(x)
      IN /\ Len(x.calls) = 1
         /\ c.base = SUPERVISOR_API /\ c.method = "POST"
         /\ c.endpoint = <<"services", a.domain, a.service>>
         /\ c.hasBody
         /\ DOMAIN c.body = DOMAIN X \cup DOMAIN T
         /\ \A k \in DOMAIN c.body : c.body[k] = IF k \in DOMAIN T THEN T[k] ELSE X[k]
         /\ x.status = "done" =>
              /\ x.resp.kind = "result"
              /\ Len(x.replies) = 1
              /\ (Len(text) >= 5 /\ SubSeq(text, 1, 5) = success)
                   => x.replies[1].outcome = "ok"
              /\ x.replies[1].outcome = "ok" => SubSeq(text, 1, 5) = success
              /\ x.replies[1].outcome = "http_error" =>
                   /\ Has(x.resp.value, "isError") /\ x.resp.value.isError
                   /\ ~InText(" called successfully.", text)

\* A call with a data field that the target holds too was answered after an
\* error status
C2_Witness ==
  \E x \in ToolCalls :
    /\ x.req.name = "call_service" /\ x.status = "done"
    /\ Has(x.req.args, "target") /\ Has(x.req.args, "data")
    /\ \E k \in DOMAIN x.req.args.target \cap DOMAIN x.req.args.data :
         x.req.args.target[k] # x.req.args.data[k]
    /\ x.replies[1].outcome = "http_error"

\* The response of the catch: isError = true and one text item 'Error: ...'
IsErrorResponse(v) ==
  /\ Has(v, "isError") /\ v.isError = TRUE
  /\ Len(v.content) = 1 /\ v.content[1].type = "text" /\ v.content[1].text[1] = "Error: "

\* An outbound request of the call got an error status or no reply
UpstreamFailed(x) == \E i \in 1..Len(x.replies) : x.replies[i].outcome # "ok"

\* The tools whose case catches the failures of its outbound requests
OwnCatch == {"diagnose_entity", "get_integration_docs", "get_breaking_changes"}

C4_StructuredContent ==
  \A x \in ToolCalls \cap Answered :
    x.resp.kind = "result" =>
      Has(x.resp.value, "content") /\ Has(x.resp.value, "structuredContent")

UnknownToolAnswer(x) ==
  x.resp.kind = "result" /\ IsErrorResponse(x.resp.value)
  /\ InText("Unknown tool: ", FirstText(x))
UnknownResourceAnswer(x) ==
  x.resp.kind = "error" /\ InText("Unknown resource: ", x.resp.message)
UnknownPromptAnswer(x) ==
  x.resp.kind = "error" /\ InText("Unknown prompt: ", x.resp.message)

\* The URI is made after one of the URI templates ha://<head>/{...}
MatchesTemplate(uri) ==
  Len(uri) >= 3 /\ uri[1] = "ha:" /\ uri[2] \in SeqToSet(RESOURCE_TEMPLATES)

\* C5: the list handlers answer with the 22 tools, the 9 resources, the 4
\* resource templates and the 6 prompts; a call of a listed tool, a read of
\* a listed URI and a request of a listed prompt is never answered 'Unknown
\* ...'; a tool or a prompt that is not listed, and a URI that is neither
\* listed nor made after a template, is answered 'Unknown ...'.
C5_AdvertisedIsServed ==
  /\ Len(TOOLS) = 22 /\ Cardinality(ToolNames) = 22
  /\ Len(RESOURCES) = 9 /\ Cardinality(SeqToSet(RESOURCES)) = 9
  /\ Len(RESOURCE_TEMPLATES) = 4
  /\ Len(PROMPTS) = 6 /\ Cardinality(PromptNames) = 6
  /\ \A x \in Answered :
       /\ x.req.kind = "list_tools" =>
            x.resp.kind = "result" /\ SeqToSet(x.resp.value.list) = ToolNames
       /\ x.req.kind = "list_resources" =>
            x.resp.kind = "result" /\ x.resp.value.list = RESOURCES
       /\ x.req.kind = "list_resource_templates" =>
            x.resp.kind = "result" /\ x.resp.value.list = RESOURCE_TEMPLATES
       /\ x.req.kind = "list_prompts" =>
            x.resp.kind = "result" /\ SeqToSet(x.resp.value.list) = PromptNames
       /\ x.req.kind = "call_tool" =>
            (UnknownToolAnswer(x) <=> x.req.name \notin ToolNames)
       /\ x.req.kind = "read_resource" =>
            /\ x.req.uri \in SeqToSet(RESOURCES) => ~UnknownResourceAnswer(x)
            /\ (x.req.uri \notin SeqToSet(RESOURCES) /\ ~MatchesTemplate(x.req.uri))
                 => UnknownResourceAnswer(x)
       /\ x.req.kind = "get_prompt" =>
            (UnknownPromptAnswer(x) <=> x.req.name \notin PromptNames)

\* The last listed resource was read and answered with its contents
C5_Witness ==
  \E x \in Answered :
    /\ x.req.kind = "read_resource"
    /\ x.req.uri = RESOURCES[Len(RESOURCES)]
    /\ x.resp.kind = "result"

\* The arguments the listing of the prompt declares required
RequiredArguments(name) ==
  { a.name : a \in UNION { {p.arguments[i] : i \in {j \in 1..Len(p.arguments) :
                                                     p.arguments[j].required}} :
                           p \in {q \in SeqToSet(PROMPTS) : q.name = name} } }

\* C6: a get-prompt request is answered with the prompt if and only if the
\* name is listed and every argument listed as required is supplied and not
\* empty; else it fails with 'Failed to get prompt <name>: ...'.  The
\* prompt's text never holds an empty or undefined part for an optional
\* argument.
C6_GetPrompt ==
  \A x \in Answered :
    x.req.kind = "get_prompt" =>
      LET ok == /\ x.req.name \in PromptNames
                /\ \A k \in RequiredArguments(x.req.name) :
                     Has(x.req.args, k) /\ x.req.args[k] # ""
      IN /\ x.resp.kind = "result" <=> ok
         /\ ~ok => /\ x.resp.kind = "error"
                   /\ SubSeq(x.resp.message, 1, 3)
                        = <<"Failed to get prompt ", x.req.name, ": ">>
         /\ ok => \A i \in 1..Len(x.resp.value.messages[1].content.text) :
                    x.resp.value.messages[1].content.text[i] \notin {"", "undefined"}

\* A request with a required argument that is the empty text has failed
C6_Witness ==
  \E x \in Answered :
    /\ x.req.kind = "get_prompt" /\ x.req.name = "troubleshoot_entity"
    /\ Has(x.req.args, "entity_id") /\ x.req.args.entity_id = ""
    /\ x.resp.kind = "error"

EightLevels ==
  {"debug", "info", "notice", "warning", "error", "critical", "alert", "emergency"}

C7_State ==
  /\ currentLogLevel \in EightLevels
  /\ \A x \in inflight :
       x.req.kind = "set_level" =>
         IF x.req.name \in EightLevels
         THEN x.resp = Result(EmptyObj) /\ currentLogLevel = x.req.name
         ELSE x.resp.kind = "error" /\ x.resp.message = <<"Invalid log level: ", x.req.name>>

C7_Step ==
  \A level \in RequestedLevels :
    SetLevel(level) =>
      currentLogLevel' = IF level \in EightLevels THEN level ELSE currentLogLevel

\* C7: the level is info at first and always one of the eight levels; a
\* set-level request naming one of them makes it the current level and is
\* answered with the empty result; one naming another value fails with
\* 'Invalid log level: ...' and leaves the level as it was.
C7_SetLevel == (currentLogLevel = "info") /\ []C7_State /\ [][C7_Step]_vars

\* An invalid set-level request has failed after a valid one changed the level
C7_Witness ==
  /\ currentLogLevel \notin {"info", "verbose"}
  /\ \E x \in Answered :
       x.req.kind = "set_level" /\ x.req.name = "verbose" /\ x.resp.kind = "error"

C8_Step ==
  /\ currentLogLevel' # currentLogLevel =>
       \E x \in inflight' \ inflight :
         x.req.kind = "set_level" /\ x.resp = Result(EmptyObj) /\ x.req.name = currentLogLevel'
  /\ lastIndex' = lastIndex

\* C8: in every step of every interleaving, the log level changes only in
\* the step of a set-level request that succeeds, to the level it names; the
\* lastIndex fields of the pattern expressions, the only other state that
\* outlives a request, never change.
C8_OnlySetLevelWrites == [][C8_Step]_vars

\* A set-level request has changed the level while another request awaits
\* its upstream reply
C8_Witness ==
  /\ currentLogLevel # "info"
  /\ \E x \in inflight : x.status = "awaiting"
  /\ \E y \in Answered : y.req.kind = "set_level" /\ y.resp.kind = "result"

\* C9: two servers given the same tool call, resource read or prompt
\* request, the same upstream replies and the same clock answer with the same
\* response and issue the same outbound requests, whatever requests each has
\* handled before and whatever their log levels.
C9_SameAnswer == twin.probed => twin.ra = twin.rb

\* Two servers with different log levels, one of which has handled requests
\* before, have answered the same request
C9_Witness ==
  /\ twin.probed
  /\ twin.a.level # twin.b.level
  /\ twin.a.handled /\ ~twin.b.handled
  /\ twin.ra.resp.kind = "result"
  /\ Len(twin.ra.calls) >= 1

\* C10 as stated: every handler has issued an outbound request by the time
\* it answers.
C10_Original == \A x \in Answered : x.calls # <<>>

\* C10: every outbound request goes to the Supervisor API or to the
\* documentation site.  A call of a listed tool other than check_config_syntax
\* with an arguments object, and a read of a resource that is not answered
\* 'Unknown resource', issue at least one; the list, set-level and
\* get-prompt handlers, check_config_syntax and a call of an unknown tool
\* issue none.
C10_WhichHandlersCall ==
  \A x \in inflight :
    /\ \A i \in 1..Len(x.calls) : x.calls[i].base \in {SUPERVISOR_API, HA_DOCS_BASE}
    /\ x.req.kind \in {"list_tools", "list_resources", "list_resource_templates",
                       "list_prompts", "set_level", "get_prompt"} => x.calls = <<>>
    /\ (x.req.kind = "call_tool"
        /\ (x.req.name = "check_config_syntax" \/ x.req.name \notin ToolNames))
         => x.calls = <<>>
    /\ (x.req.kind = "call_tool" /\ x.req.hasArgs
        /\ x.req.name \in ToolNames \ {"check_config_syntax"}) => x.calls # <<>>
    /\ (x.req.kind = "read_resource" /\ x.status = "done" /\ ~UnknownResourceAnswer(x))
         => x.calls # <<>>

\* A check_config_syntax call was answered with its report and no outbound
\* request
C10_Witness ==
  \E x \in ToolCalls \cap Answered :
    /\ x.req.name = "check_config_syntax"
    /\ x.resp.kind = "result" /\ ~Has(x.resp.value, "isError")
    /\ x.calls = <<>>

\* C11: a server started without SUPERVISOR_TOKEN (unset or empty) has
\* exited with status 1 and has handled no request; every request a running
\* server has sent to the Supervisor API carries 'Authorization: Bearer
\* <token>' with the token of its environment; no request sent to the
\* documentation site carries an Authorization header or holds the token in
\* a header, in its URL or in a body.
C11_TokenStaysWithSupervisor ==
  /\ process.status = "exited" <=>
       (~Has(process.env, "SUPERVISOR_TOKEN") \/ process.env.SUPERVISOR_TOKEN = "")
  /\ process.status = "exited" => process.code = "1" /\ inflight = {} /\ stderr = <<>>
  /\ \A x \in inflight : \A i \in 1..Len(x.calls) :
       LET c == x.calls[i] IN
       /\ c.base \in {SUPERVISOR_API, HA_DOCS_BASE}
       /\ c.base = SUPERVISOR_API =>
            /\ Has(c.headers, "Authorization")
            /\ c.headers.Authorization = <<"Bearer ", process.env.SUPERVISOR_TOKEN>>
       /\ c.base = HA_DOCS_BASE =>
            /\ ~Has(c.headers, "Authorization")
            /\ \A h \in DOMAIN c.headers : c.headers[h] # process.env.SUPERVISOR_TOKEN
            /\ ~InText(process.env.SUPERVISOR_TOKEN, c.endpoint)
            /\ ~c.hasBody

\* A tool call has sent a request to the Supervisor API and then one to the
\* documentation site
C11_Witness ==
  \E x \in inflight :
    /\ Len(x.calls) = 2
    /\ x.calls[1].base = SUPERVISOR_API
    /\ x.calls[2].base = HA_DOCS_BASE

\* The state detectAnomaly was applied to, and what it returned
OneScanned == scan.fn = "detectAnomaly"
TheState == scan.states[1]
TheAnomaly == scan.result[1]
Reported == TheAnomaly # NoAnomaly
DomainOf(state) == SplitFirst(state.entity_id, ".")
ClassIs(state, class) ==
  Has(state.attributes, "device_class") /\ state.attributes.device_class = class
NumberIn(state) == parseFloat(state.state)
Numeric(state) == ~NumberIn(state).nan
Outside(state, low, high) ==
  Numeric(state) /\ (NumberIn(state).n < low \/ NumberIn(state).n > high)
UnitGiven(state) ==
  Has(state.attributes, "unit_of_measurement") /\ state.attributes.unit_of_measurement # <<>>
UnitHasC(state) == UnitGiven(state) /\ Includes(state.attributes.unit_of_measurement, <<"C">>)

BatteryBelow20(state) ==
  /\ Has(state.attributes, "battery_level")
  /\ Has(state.attributes.battery_level, "num")
  /\ state.attributes.battery_level.num < 20
TemperatureSensor(state) == DomainOf(state) = <<"sensor">> /\ ClassIs(state, <<"temperature">>)
HumidityOutside(state) ==
  DomainOf(state) = <<"sensor">> /\ ClassIs(state, <<"humidity">>) /\ Outside(state, 10, 95)
OpenOverFourHours(state, now) ==
  /\ DomainOf(state) = <<"binary_sensor">>
  /\ ClassIs(state, <<"door">>) \/ ClassIs(state, <<"window">>)
  /\ state.state = <<"on">>
  /\ Has(state, "last_changed")
  /\ now - state.last_changed > 240

\* The temperature test as the claim words it: the Celsius range when the
\* unit contains 'C', the other range otherwise
TemperatureOutsideByUnit(state) ==
  /\ TemperatureSensor(state)
  /\ IF UnitHasC(state) THEN Outside(state, -10, 50) ELSE Outside(state, 14, 122)

SeverityIs(warned) == TheAnomaly.severity = IF warned THEN "warning" ELSE "info"

\* C12 as stated: an entity that is not a light is reported exactly when its
\* battery level is below 20, or it is a temperature sensor whose numeric state
\* is outside -10..50 when the unit contains 'C' and outside 14..122 otherwise,
\* or a humidity sensor below 10 or above 95, or a door or window binary sensor
\* that is on since more than 4 hours; the first three are warnings, the last
\* is info
C12_Original ==
  (OneScanned /\ DomainOf(TheState) # <<"light">>) =>
    /\ Reported <=> \/ BatteryBelow20(TheState)
                    \/ TemperatureOutsideByUnit(TheState)
                    \/ HumidityOutside(TheState)
                    \/ OpenOverFourHours(TheState, scan.now)
    /\ Reported => SeverityIs(BatteryBelow20(TheState) \/ TemperatureOutsideByUnit(TheState)
                              \/ HumidityOutside(TheState))

\* The lists the tools scanned
ListScanned == scan.fn \in {"detect_anomalies", "ha://anomalies"}
Unreachable(state) == state.state \in {<<"unavailable">>, <<"unknown">>}
InResult(state) == \E j \in 1..Len(scan.result) : scan.result[j].entity_id = state.entity_id

\* C13: every entity whose state is unavailable or unknown is in the result of
\* detect_anomalies (among the states of the domain asked for) and of
\* ha://anomalies
C13_UnavailableReported ==
  ListScanned =>
    \A i \in 1..Len(scan.scanned) : Unreachable(scan.scanned[i]) => InResult(scan.scanned[i])

\* C14: a light that is on (and has no low battery) is reported as 'Light on
\* during daytime' exactly when the local time is between 10 AM and 4 PM
C14_LightBetweenTenAndFour ==
  (OneScanned /\ DomainOf(TheState) = <<"light">> /\ TheState.state = <<"on">>
   /\ ~BatteryBelow20(TheState)) =>
    ((Reported /\ TheAnomaly.reason = <<"Light on during daytime">>)
       <=> (scan.now % 1440 >= 600 /\ scan.now % 1440 <= 960))

\* The scans that filter by domain, and the domain asked for
DomainScanned ==
  /\ scan.fn \in {"get_states", "detect_anomalies", "ha://states/{domain}"}
  /\ Given(scan.args, "domain")
OfDomain(states, domain) ==
  LET Same(s) == DomainOf(s) = domain IN SelectSeq(states, Same)
Ids(states) == [i \in 1..Len(states) |-> states[i].entity_id]

SearchScanned == scan.fn = "search_entities"
Results == IF Has(scan.result[1], "text") THEN <<>> ELSE scan.result
QueryWords == split(toLowerCase(scan.args.query))
Lowered(state, k) == toLowerCase(AttrOrEmpty(state, k))
InAnyText(word, state) ==
  \/ Includes(toLowerCase(state.entity_id), word)
  \/ Includes(Lowered(state, "friendly_name"), word)
  \/ Includes(Lowered(state, "device_class"), word)
  \/ Includes(toLowerCase(state.state), word)
WordScore(word, state) ==
  (IF InAnyText(word, state) THEN 1 ELSE 0)
  + (IF Includes(Lowered(state, "friendly_name"), word) THEN 2 ELSE 0)
  + (IF Includes(state.entity_id, word) THEN 1 ELSE 0)
RECURSIVE SumOfWords(_, _)
SumOfWords(state, i) ==
  IF i > Len(QueryWords) THEN 0 ELSE WordScore(QueryWords[i], state) + SumOfWords(state, i + 1)
Returned(state) == \E j \in 1..Len(Results) : Results[j].entity_id = state.entity_id

DetailsScanned == scan.fn = "get_entity_details" /\ ~Has(scan.result[1], "error")
TheEntity == scan.states[find(scan.states, scan.args.entity_id)]
Related == scan.result[1].related_entities
HasId(state, k) == Has(state.attributes, k) /\ state.attributes[k] # <<>>
Shares(state, k) ==
  HasId(TheEntity, k) /\ HasId(state, k) /\ state.attributes[k] = TheEntity.attributes[k]
Relatives ==
  LET Other(s) == s.entity_id # TheEntity.entity_id
                  /\ (Shares(s, "device_id") \/ Shares(s, "area_id"))
  IN SelectSeq(scan.states, Other)

\* C16: for an existing entity E the related entities are the first 10, in the
\* order of the states, of the entities other than E that have the device_id
\* or the area_id of E (an empty id counting as none); there is none when E has
\* neither id, and E is never among them
C16_RelatedEntities ==
  DetailsScanned =>
    /\ Ids(Related) = Ids(slice(Relatives, 10))
    /\ Len(Related) <= 10
    /\ (~HasId(TheEntity, "device_id") /\ ~HasId(TheEntity, "area_id")) => Related = <<>>
    /\ \A j \in 1..Len(Related) : Related[j].entity_id # TheEntity.entity_id

\* E stands among more than 10 entities of its device and area: the first 10
\* are answered with
C16_Witness ==
  /\ DetailsScanned
  /\ Len(Relatives) > 10
  /\ Len(Related) = 10
  /\ HasId(TheEntity, "device_id")
  /\ find(scan.states, scan.args.entity_id) \in 2..10

\* The suggestions made, by type
SuggestionsScanned == scan.fn = "get_suggestions"
OfType(type) == LET Is(x) == x.type = type IN SelectSeq(scan.result, Is)
ClassIn(state, classes) ==
  Has(state.attributes, "device_class") /\ state.attributes.device_class \in classes
IsLightEntity(state) == DomainOf(state) = <<"light">>
IsMotionSensor(state) ==
  ClassIn(state, {<<"motion">>}) \/ Includes(state.entity_id, <<"motion">>)
LightsOfAreaOf(state) ==
  LET InArea(l) == /\ IsLightEntity(l)
                   /\ HasId(l, "area_id")
                   /\ l.attributes.area_id = state.attributes.area_id
  IN SelectSeq(scan.states, InArea)
Suggestible(state) ==
  IsMotionSensor(state) /\ HasId(state, "area_id") /\ LightsOfAreaOf(state) # <<>>
Exists(P(_)) == \E i \in 1..Len(scan.states) : P(scan.states[i])
IsOpeningEntity(state) == ClassIn(state, {<<"door">>, <<"window">>})
IsClimateEntity(state) == DomainOf(state) = <<"climate">>
IsTemperatureEntity(state) == ClassIn(state, {<<"temperature">>})
IsPowerEntity(state) == ClassIn(state, {<<"power">>, <<"energy">>})
OneIff(type, condition) == Len(OfType(type)) = IF condition THEN 1 ELSE 0

\* C17: get_suggestions makes one motion_light suggestion for each motion
\* sensor (device_class motion, or 'motion' in its id) that has an area_id
\* shared by a light.* entity, its action entities being exactly the light.*
\* entities of that area, and none for any other entity; one security_alert
\* iff a door or window entity exists, one climate_optimization iff a
\* climate.* entity and a temperature entity exist, one energy_monitoring iff
\* a power or energy entity exists; and nothing else
C17_Suggestions ==
  SuggestionsScanned =>
    /\ \A i \in 1..Len(scan.states) :
         Cardinality({j \in 1..Len(scan.result) :
                        /\ scan.result[j].type = "motion_light"
                        /\ scan.result[j].trigger_entity = scan.states[i].entity_id})
           = IF Suggestible(scan.states[i]) THEN 1 ELSE 0
    /\ \A j \in 1..Len(OfType("motion_light")) :
         \E i \in 1..Len(scan.states) :
           /\ scan.states[i].entity_id = OfType("motion_light")[j].trigger_entity
           /\ OfType("motion_light")[j].action_entities = Ids(LightsOfAreaOf(scan.states[i]))
    /\ OneIff("security_alert", Exists(IsOpeningEntity))
    /\ OneIff("climate_optimization", Exists(IsClimateEntity) /\ Exists(IsTemperatureEntity))
    /\ OneIff("energy_monitoring", Exists(IsPowerEntity))
    /\ \A j \in 1..Len(scan.result) :
         scan.result[j].type \in {"motion_light", "security_alert", "climate_optimization",
                                  "energy_monitoring"}

\* A motion sensor in the hall with the hall's light, a motion sensor without
\* an area and a light of another area: one motion_light suggestion, with the
\* hall's light alone
C17_Witness ==
  /\ SuggestionsScanned
  /\ Len(scan.states) = 3
  /\ \E i \in 1..3 : Suggestible(scan.states[i]) /\ Len(LightsOfAreaOf(scan.states[i])) = 1
  /\ \E i \in 1..3 : IsLightEntity(scan.states[i]) /\ scan.states[i].attributes = [area_id |-> <<"a2">>]
  /\ Len(OfType("motion_light")) = 1
  /\ Len(scan.result) = 1

\* The YAML text checked, and the result object
ConfigChecked == scan.fn = "check_config_syntax"
TheYaml == scan.args.yaml_config
HasLine(key, val) == \E i \in 1..Len(TheYaml) : TheYaml[i].key = key /\ TheYaml[i].val = val
HasKey(key) == \E i \in 1..Len(TheYaml) : TheYaml[i].key = key
TemplateUnderSensor ==
  \E i \in 1..(Len(TheYaml) - 1) :
    /\ TheYaml[i].key = "sensor" /\ TheYaml[i].ind = 0
    /\ TheYaml[i + 1].key = "platform" /\ TheYaml[i + 1].val = "template"
DeprecatedSince(version) ==
  /\ scan.result[1].deprecated
  /\ \E j \in 1..Len(scan.result[1].warnings) :
       /\ scan.result[1].warnings[j].tag = "DEPRECATED"
       /\ scan.result[1].warnings[j].since = version

\* C18: a YAML text that contains 'platform: template' under 'sensor:',
\* 'entity_namespace:', 'platform: time_date' or 'white_value:' is reported
\* with deprecated = true and a '[DEPRECATED since <version>]' warning of that
\* pattern, whatever the integration argument is
C18_DocumentedDeprecations ==
  ConfigChecked =>
    /\ TemplateUnderSensor => DeprecatedSince("2024.1")
    /\ HasKey("entity_namespace") => DeprecatedSince("2023.8")
    /\ HasLine("platform", "time_date") => DeprecatedSince("2024.6")
    /\ HasKey("white_value") => DeprecatedSince("2023.3")

\* C20: the startup script copies the default opencode.json only when there is
\* no such file: a configuration the user left is unchanged after any number of
\* runs (and updates of the default), no run copies over it, and where there
\* was none the first run, and only the first, copies a default
C20_ConfigurationPersists ==
  disk # NoDisk =>
    /\ disk.kept # "absent" => (disk.config = disk.kept /\ disk.created = 0)
    /\ (disk.kept = "absent" /\ disk.runs = 0) => (disk.config = "absent" /\ disk.created = 0)
    /\ (disk.kept = "absent" /\ disk.runs > 0) => (disk.config \in Defaults /\ disk.created = 1)

\* The user's configuration has been through two runs or more and an update
\* of the default
C20_Witness ==
  /\ disk # NoDisk
  /\ disk.kept = "user-a"
  /\ disk.runs >= 2
  /\ disk.default = "default-2"
  /\ disk.config = "user-a"

\* ------------------------------------------------------------ C21: logging
\* The rank of a level in the order debug < info < ... < emergency
LevelOrder ==
  <<"debug", "info", "notice", "warning", "error", "critical", "alert", "emergency">>

Rank(level) == CHOOSE i \in 1..8 : LevelOrder[i] = level

AtLeastCurrent(log, cur) ==
  LET Keep(l) == Rank(l.level) >= Rank(cur) IN SelectSeq(log, Keep)

LevelChanged == [level |-> "info", logger |-> "mcp-server", action |-> "log_level_changed"]

InLog(l, log) == \E i \in 1..Len(log) : log[i] = l

\* The records the handler run in this step hands to sendLog: x is the
\* request as the step leaves it
Handed(x) ==
  IF x.req.kind = "set_level"
  THEN {IF x.resp.kind = "result" THEN <<LevelChanged>> ELSE <<>>}
  ELSE IF x.req.kind \in {"list_tools", "list_resources", "list_prompts"}
  THEN {Entry("debug", x.req.kind)}
  ELSE IF x.req.kind = "list_resource_templates" THEN {<<>>}
  ELSE IF inflight \ inflight' = {}
  THEN LET steps == {StartStep(x.req, t, lastIndex) : t \in Times \cup {NoTime}}
       IN {s.log : s \in {r \in steps : x = Settle(x.req, 0, <<>>, <<>>, r)}}
  ELSE LET last == x.replies[Len(x.replies)]
           Steps(y) == {ResumeStep(y.req, y.pc, y.locals, last, t) : t \in Times}
       IN UNION {{s.log : s \in {r \in Steps(y) :
                                   x = Settle(y.req, y.pc, y.calls, x.replies, r)}} :
                 y \in inflight \ inflight'}

C21_State ==
  /\ \A i \in 1..Len(stderr) : Rank(stderr[i].level) >= Rank(currentLogLevel)
  /\ \A x \in inflight :
       x.req.kind = "set_level" /\ x.status = "done" /\ x.resp.kind = "result" =>
         (InLog(LevelChanged, stderr) <=> x.req.name \in {"debug", "info"})

C21_Step ==
  \A x \in inflight' \ inflight :
    LET handed == Handed(x)
    IN /\ handed # {}
       /\ \A log \in handed : stderr' = AtLeastCurrent(log, currentLogLevel')

\* C21: a record handed to sendLog is written exactly when the rank of its
\* level is at least the rank of the level current at that moment, whatever
\* set-level requests came before; the info record 'log_level_changed' of a
\* successful set-level to X is written only when X is debug or info.
C21_WrittenIffRankAtLeast == []C21_State /\ [][C21_Step]_vars

\* After a set-level to warning, a handler has handed an info and an error
\* record to sendLog and only the error record was written
C21_Witness ==
  /\ currentLogLevel = "warning"
  /\ \E x \in inflight :
       /\ x.req.kind = "call_tool" /\ x.status = "done" /\ x.calls = <<>>
       /\ IsErrorResponse(x.resp.value)
  /\ Len(stderr) = 1 /\ stderr[1].level = "error"

\* ------------------------------------------------------------ C22: no retry
\* The URL of an outbound request: the host, the path and the time range the
\* path holds
Url(call) == <<call.base, call.endpoint, call.at>>

\* C22: within the handling of one tool call or resource read no URL is
\* requested twice, whether or not a request failed, and at most three
\* outbound requests are made.
C22_NoRetry ==
  \A x \in inflight :
    /\ Len(x.calls) <= 3
    /\ \A i, j \in 1..Len(x.calls) : i # j => Url(x.calls[i]) # Url(x.calls[j])
    /\ x.status = "done" /\ UpstreamFailed(x) => Len(x.calls) = Len(x.replies)

\* A call has made three outbound requests and the last one failed
C22_Witness ==
  \E x \in Answered :
    Len(x.calls) = 3 /\ x.replies[3].outcome # "ok"

\* ------------------------------------------------ C23: documentation tools
DocsCalls ==
  {x \in ToolCalls \cap Answered :
     x.req.name \in {"get_integration_docs", "get_breaking_changes"} /\ x.req.hasArgs}

Requested(args, k) == IF Has(args, k) /\ args[k] # "" THEN args[k] ELSE "none"

\* The versions of the curated changes asked for, in the order of the list
Wanted(args) ==
  LET Asks(c) ==
        /\ Requested(args, "integration") \in {"none", c.integration} \/ c.integration = "null"
        /\ Requested(args, "version") \in {"none", c.version}
      kept == SelectSeq(knownBreakingChanges, Asks)
  IN [i \in 1..Len(kept) |-> kept[i].version]

\* The Home Assistant version the response reports
ReportedVersion(x) ==
  LET text == FirstText(x) IN
  IF x.req.name = "get_breaking_changes" THEN text[2]
  ELSE IF text[1] = "# " THEN text[5] ELSE text[Len(text)]

C23_Docs(x) ==
  /\ x.replies[1].outcome # "ok" => ReportedVersion(x) = "unknown"
  /\ x.replies[2].outcome # "ok" =>
       FirstText(x)[1] = "Unable to fetch documentation for '"

C23_Changes(x) ==
  LET text == FirstText(x)
      wanted == Wanted(x.req.args)
  IN /\ x.replies[1].outcome # "ok" => ReportedVersion(x) = "unknown"
     /\ SubSeq(text, 5, 4 + Len(wanted)) = wanted
     /\ IF x.replies[2].outcome # "ok"
        THEN Len(text) = 4 + Len(wanted)
        ELSE Len(text) = 6 + Len(wanted) /\ text[5 + Len(wanted)] = "release notes"

\* C23: get_integration_docs and get_breaking_changes called with an
\* arguments object never answer with isError: a failed version lookup makes
\* the reported version 'unknown', a failed documentation fetch gives the
\* fallback text, a failed release-notes fetch a result without excerpt; and
\* get_breaking_changes lists exactly the curated changes of the requested
\* integration or of none, and of the requested version.
C23_DocsToolsDegrade ==
  \A x \in DocsCalls :
    /\ x.resp.kind = "result" /\ ~Has(x.resp.value, "isError")
    /\ Len(x.replies) = 2
    /\ IF x.req.name = "get_integration_docs" THEN C23_Docs(x) ELSE C23_Changes(x)

\* Both requests of a get_breaking_changes call for one integration failed
\* and the answer lists that integration's change and the general ones
C23_Witness ==
  \E x \in DocsCalls :
    /\ x.req.name = "get_breaking_changes"
    /\ Requested(x.req.args, "integration") = "mqtt"
    /\ \A i \in 1..2 : x.replies[i].outcome # "ok"
    /\ FirstText(x) = <<"# Breaking Changes", "unknown", "mqtt", "2023.8", "2023.8">>

\* --------------------------------------------------- C24: diagnose_entity
Diagnoses == {x \in ToolCalls \cap Answered : x.req.name = "diagnose_entity"}

Checks(x) == SubSeq(FirstText(x), 6, Len(FirstText(x)))

CheckOrder ==
  <<"Current State", "Availability", "Relationships", "Activity", "Anomaly Detection",
    "Entity Lookup">>

CheckRank(c) == CHOOSE i \in 1..Len(CheckOrder) : CheckOrder[i] = c

FailedAt(x, i) == i <= Len(x.replies) /\ x.replies[i].outcome # "ok"
JsonAt(x, i) == i <= Len(x.replies) /\ x.replies[i].outcome = "ok" /\ x.replies[i].json

\* The requests made are the first ones of: the entity's state, all states,
\* the entity's history of the last 24 hours
InRequestOrder(x) ==
  LET id == Str(x.req.args, "entity_id") IN
  /\ Len(x.calls) \in 1..3
  /\ x.calls[1].endpoint = <<"states", id>>
  /\ Len(x.calls) >= 2 => x.calls[2].endpoint = <<"states">>
  /\ Len(x.calls) >= 3 =>
       /\ SubSeq(x.calls[3].endpoint, 1, 3) = <<"history", "period", "now-24h">>
       /\ InText(id, x.calls[3].endpoint)
  /\ \A i \in 1..Len(x.calls) : x.calls[i].base = SUPERVISOR_API /\ x.calls[i].method = "GET"

\* The checks of a diagnosis whose replies were documents or failures
ChecksFor(x) ==
  LET state == x.replies[1].payload
      s1 == <<"Current State">>
            \o (IF state.state \in {"unavailable", "unknown"} THEN <<"Availability">> ELSE <<>>)
      s2 == s1 \o <<"Relationships">>
  IN IF FailedAt(x, 1) THEN <<"Entity Lookup">>
     ELSE IF FailedAt(x, 2) THEN s1 \o <<"Entity Lookup">>
     ELSE IF FailedAt(x, 3) THEN s2 \o <<"Entity Lookup">>
     ELSE s2 \o (IF Has(x.replies[3].payload, "data") THEN <<"Activity">> ELSE <<>>)
             \o (IF Has(state, "anomaly") THEN <<"Anomaly Detection">> ELSE <<>>)

Diagnosed(x) ==
  /\ x.resp.kind = "result" /\ ~Has(x.resp.value, "isError")
  /\ Len(Checks(x)) > 0
  /\ InRequestOrder(x)
  /\ \A i, j \in 1..Len(Checks(x)) :
       i < j => CheckRank(Checks(x)[i]) < CheckRank(Checks(x)[j])
  /\ \A i \in 1..3 :
       FailedAt(x, i) =>
         /\ Len(x.calls) = i
         /\ Checks(x)[Len(Checks(x))] = "Entity Lookup"
  /\ (\A i \in 1..Len(x.replies) : FailedAt(x, i) \/ JsonAt(x, i)) => Checks(x) = ChecksFor(x)

\* C24 as stated: diagnose_entity always returns a non-error response with
\* a non-empty list of checks.
C24_Original == \A x \in Diagnoses : Diagnosed(x)

\* C24: diagnose_entity called with an arguments object returns a non-error
\* response with a non-empty list of checks.  It requests the entity's state,
\* all states and the entity's 24-hour history, in this order; the checks
\* are, in this order, Current State, Availability (state unavailable or
\* unknown), Relationships, Activity (the history has a series), Anomaly
\* Detection (an anomaly is detected).  After a failed request no other is
\* issued, the checks made so far are kept and one 'Entity Lookup' check is
\* the last.
C24_WithArguments == \A x \in Diagnoses : x.req.hasArgs => Diagnosed(x)

\* The history request of a diagnosis of an unavailable entity failed
C24_Witness ==
  \E x \in Diagnoses :
    /\ x.req.hasArgs /\ FailedAt(x, 3)
    /\ Checks(x) = <<"Current State", "Availability", "Relationships", "Entity Lookup">>

\* ------------------------------------------------------ C25: missing entity
\* Home Assistant answered the request for the entity's state with 404
StateNotFound(x) == Len(x.replies) >= 1 /\ x.replies[1] = NotFound

\* The list of states the request got does not hold the entity it names
NotListed(x, id) ==
  /\ Len(x.replies) = 1 /\ x.replies[1].outcome = "ok" /\ x.replies[1].json
  /\ x.replies[1].payload.listed # id

EntityReads ==
  {x \in Answered : x.req.kind = "read_resource" /\ RestMatch(x.req.uri, "entity")}

NotFoundObject == <<"error", "Entity not found">>

\* The operation was answered as a failure: a tool call with the error
\* response, a resource read with a failed request
ReportedAsError(x) ==
  IF x.req.kind = "call_tool"
  THEN x.resp.kind = "result" /\ IsErrorResponse(x.resp.value)
  ELSE x.resp.kind = "error"

\* The operation was given an arguments object or a URI naming an entity
\* that Home Assistant does not have
MissingEntity(x) ==
  \/ /\ x \in ToolCalls /\ x.req.hasArgs
     /\ \/ x.req.name = "get_states" /\ Truthy(x.req.args, "entity_id") /\ StateNotFound(x)
        \/ x.req.name = "diagnose_entity" /\ StateNotFound(x)
        \/ x.req.name = "get_entity_details" /\ NotListed(x, Str(x.req.args, "entity_id"))
  \/ x \in EntityReads /\ NotListed(x, x.req.uri[3])

\* C25 as stated: every entity-taking operation reports a missing entity as
\* an error.
C25_Original == \A x \in Answered : MissingEntity(x) => ReportedAsError(x)

\* C25: of the operations that take an entity id, get_states reports an
\* entity Home Assistant does not have with the error response;
\* get_entity_details and the read of ha://entity/{entity_id} answer
\* normally with the object { error: 'Entity not found' }, and
\* diagnose_entity answers normally with the single check 'Entity Lookup'.
C25_MissingEntity ==
  \A x \in Answered :
    MissingEntity(x) =>
      CASE x.req.kind = "read_resource" ->
             /\ x.resp.kind = "result"
             /\ x.resp.value.contents[1].text = NotFoundObject
        [] x.req.name = "get_states" -> ReportedAsError(x)
        [] x.req.name = "diagnose_entity" ->
             /\ ~ReportedAsError(x) /\ ~Has(x.resp.value, "isError")
             /\ Checks(x) = <<"Entity Lookup">>
        [] OTHER ->
             /\ ~ReportedAsError(x) /\ ~Has(x.resp.value, "isError")
             /\ FirstText(x) = NotFoundObject

\* get_entity_details was asked for an entity the list of states does not
\* hold and has answered
C25_Witness ==
  \E x \in ToolCalls \cap Answered :
    /\ x.req.name = "get_entity_details"
    /\ MissingEntity(x)
    /\ FirstText(x) = NotFoundObject

\* ------------------------------------------- C26: one anomaly for an entity
\* The conditions in their order, and the condition an anomaly reports
ConditionOrder ==
  <<"Low battery (", "Unusual temperature: ", "Unusual humidity: ", "Open for ",
    "Light on during daytime">>

ConditionOf(a) == CHOOSE k \in 1..5 : ConditionOrder[k] = a.reason[1]

\* The k-th condition holds for the state whatever the unit of a temperature
Holds(k, state, now) ==
  CASE k = 1 -> BatteryBelow20(state)
    [] k = 2 -> TemperatureSensor(state) /\ Outside(state, -10, 122)
    [] k = 3 -> HumidityOutside(state)
    [] k = 4 -> OpenOverFourHours(state, now)
    [] OTHER -> /\ DomainOf(state) = <<"light">> /\ state.state = <<"on">>
                /\ now % 1440 >= 600 /\ now % 1440 < 1020

\* The anomaly of one entity: none, or the first condition that holds
FirstCondition(state, anomaly, now) ==
  anomaly # NoAnomaly =>
    /\ anomaly.entity_id = state.entity_id
    /\ \E k \in 1..5 : ConditionOrder[k] = anomaly.reason[1]
    /\ \A j \in 1..5 : j < ConditionOf(anomaly) => ~Holds(j, state, now)
    /\ anomaly.severity = IF ConditionOf(anomaly) <= 3 THEN "warning" ELSE "info"

\* The positions of the scanned list that are reported
Found == {i \in 1..Len(scan.scanned) : detectAnomaly(scan.scanned[i], scan.now) # NoAnomaly}

\* The result holds the anomalies of the reported positions, each once, the
\* warnings before the others and each group in the order of the list
SortedFrom(result, scanned, now) ==
  /\ Len(result) = Cardinality(Found)
  /\ \E f \in [1..Len(result) -> Found] :
       /\ \A k, l \in 1..Len(result) : k # l => f[k] # f[l]
       /\ \A k \in 1..Len(result) : FirstCondition(scanned[f[k]], result[k], now)
       /\ \A k, l \in 1..Len(result) :
            k < l =>
              /\ result[l].severity = "warning" => result[k].severity = "warning"
              /\ result[k].severity = result[l].severity => f[k] < f[l]

\* C26: anomaly detection reports an entity at most once, by the first of
\* the conditions low battery, temperature, humidity, open door or window,
\* light on during daytime that holds for it, so never more anomalies than
\* entities scanned; the result of detect_anomalies has every warning before
\* every info, anomalies of equal severity in the order of the state list.
C26_OncePerEntityWarningsFirst ==
  /\ OneScanned => Len(scan.result) = 1 /\ FirstCondition(TheState, TheAnomaly, scan.now)
  /\ ListScanned => Len(scan.result) <= Len(scan.scanned)
  /\ scan.fn = "detect_anomalies" => SortedFrom(scan.result, scan.scanned, scan.now)

\* detect_anomalies scanned a light on during the day listed before a
\* humidity sensor reading 9 with a low battery: the sensor is reported
\* first and once, for its battery
C26_Witness ==
  /\ scan.fn = "detect_anomalies"
  /\ Len(scan.scanned) = 2 /\ Len(scan.result) = 2
  /\ Holds(5, scan.scanned[1], scan.now)
  /\ Holds(1, scan.scanned[2], scan.now) /\ Holds(3, scan.scanned[2], scan.now)
  /\ scan.result[1].entity_id = scan.scanned[2].entity_id
  /\ ConditionOf(scan.result[1]) = 1 /\ ConditionOf(scan.result[2]) = 5

\* ---------------------------------------------------- C27: the relationship
\* The state of the j-th related entity
StateOf(j) == scan.states[find(scan.states, Related[j].entity_id)]

\* C27 as stated: a related entity is labelled same_device exactly when it
\* and the queried entity have the same defined device_id, and same_area
\* exactly when only the area_id relates them; an entity sharing only the
\* area of a queried entity without device_id is never labelled same_device.
C27_Labels ==
  DetailsScanned =>
    \A j \in 1..Len(Related) :
      /\ Related[j].relationship \in {"same_device", "same_area"}
      /\ Related[j].relationship = "same_device" <=> Shares(StateOf(j), "device_id")
      /\ Related[j].relationship = "same_area" <=>
           (Shares(StateOf(j), "area_id") /\ ~Shares(StateOf(j), "device_id"))

\* ------------------------------------------------- C28: the words searched
\* The query holds nothing but white space
Blank(query) == \A i \in 1..Len(query) : IsSpace(query[i])

\* The state a result was made from
Searched(j) == scan.states[CHOOSE i \in 1..Len(scan.states) :
                             scan.states[i].entity_id = Results[j].entity_id]

\* C28 as stated: every entity search_entities returns holds a non-empty
\* word of the query in its id, friendly name, device class or state; an
\* empty or blank query returns no entity and gives the text 'No entities
\* found matching'.
C28_ResultsHoldAWord ==
  SearchScanned =>
    /\ \A j \in 1..Len(Results) :
         \E w \in 1..Len(QueryWords) :
           QueryWords[w] # <<>> /\ InAnyText(QueryWords[w], Searched(j))
    /\ Blank(scan.args.query) =>
         /\ Results = <<>>
         /\ Has(scan.result[1], "text")
         /\ scan.result[1].text[1] = "No entities found matching \""

\* --------------------------------------------------- C29: valid, deprecated
TheReport == scan.result[1]

\* The report of the same text checked without the integration argument
PlainReport == ConfigSyntaxResult(TheYaml, "", lastIndex)

\* The j-th warning is the match of a pattern with a deprecated_in version
OfDeprecatedPattern(w) ==
  w.pattern \in 1..Len(DEPRECATION_PATTERNS)
  /\ DEPRECATION_PATTERNS[w.pattern].deprecated_in # "none"

Among(items, others) == \A i \in 1..Len(items) : \E j \in 1..Len(others) : others[j] = items[i]

\* C29: in every check_config_syntax result valid is true exactly when
\* deprecated is false, and false exactly when a matched pattern has a
\* deprecated_in version: info-level matches, the tab warning and the
\* missing-top-level-key warning leave valid true.  With an integration
\* argument the warnings and suggestions are among those of the same text
\* checked without it.
C29_ValidIffNotDeprecated ==
  ConfigChecked =>
    /\ TheReport.valid <=> ~TheReport.deprecated
    /\ ~TheReport.valid <=>
         \E j \in 1..Len(TheReport.warnings) : OfDeprecatedPattern(TheReport.warnings[j])
    /\ Among(TheReport.warnings, PlainReport.warnings)
    /\ Among(TheReport.suggestions, PlainReport.suggestions)
    /\ Len(TheReport.warnings) <= Len(PlainReport.warnings)
    /\ Len(TheReport.suggestions) <= Len(PlainReport.suggestions)
    /\ PlainReport.valid => TheReport.valid

\* A text with a time_date platform, an automation with an alias and a tab
\* was checked for the template integration: the deprecation is not reported,
\* the info-level match and the tab warning are, and valid is true
C29_Witness ==
  /\ ConfigChecked
  /\ scan.args.integration = "template"
  /\ ~PlainReport.valid /\ TheReport.valid
  /\ \E j \in 1..Len(TheReport.warnings) : TheReport.warnings[j].tag = "INFO"
  /\ \E j \in 1..Len(TheReport.warnings) : TheReport.warnings[j].tag = ""

\* ------------------------------------------------- C30: a snapshot of one entity
\* The state the report shows in current_state and in relationships
CurrentState(x) == FirstText(x)[4]
RelationshipsState(x) == FirstText(x)[5]

\* C30 as stated: the report of diagnose_entity is a snapshot of one
\* entity: the state in current_state is the state shown for the entity in
\* relationships, where the entity is found, also when Home Assistant
\* changes or removes the entity, or other requests are handled, during the
\* diagnosis.  (Stated of the diagnoses whose first two requests were
\* answered with JSON documents.)
C30_ConsistentSnapshot ==
  \A x \in Diagnoses :
    (x.req.hasArgs /\ JsonAt(x, 1) /\ JsonAt(x, 2)) =>
      /\ RelationshipsState(x) # "Entity not found"
      /\ RelationshipsState(x) = CurrentState(x)

====
